---- MODULE Spec2Model ----
(***************************************************************************)
(* kaggleMate: the CSV ingestion and profiling engine (services/csvParser, *)
(* parseCSV) as a state machine.  One run of parseCSV is a FileReader read *)
(* followed by the onload handler, which either resolves the promise with  *)
(* a DatasetSummary or rejects it with the error that was thrown.          *)
(*                                                                         *)
(* Representation.  A string is a sequence of one-character strings.  The  *)
(* text of a file is the sequence of its segments between "\n" characters  *)
(* (the text is the segments joined by "\n").  Numbers are integers; a     *)
(* Date.parse result is counted in days since the epoch (every date-only   *)
(* ISO string parses to midnight UTC, a multiple of 86400000 ms).          *)
(***************************************************************************)
EXTENDS Integers, Sequences, FiniteSets, TLC

\* parseCSV
VARIABLES file, pc, lines, bestDelimiter, headers, validationLimit,
          malformedCount, preview, sampleLimit, columnValues, columns,
          thrown, settled, result, reason

\* The text handed to the browser by the Dashboard's Export CSV
VARIABLES download

parseVars == <<file, pc, lines, bestDelimiter, headers, validationLimit,
               malformedCount, preview, sampleLimit, columnValues, columns,
               thrown, settled, result, reason>>

\* runMultiAgentAnalysis: the API key of the environment, the control point,
\* the locals of the function, the requests sent to the model in order, the
\* agent names passed to onProgress in order, and what the call came to
VARIABLES apiKey, apc, plan, iteration, currentNotebookCells, currentReview,
          iterationHistory, calls, progress, outcome

agentVars == <<apiKey, apc, plan, iteration, currentNotebookCells,
               currentReview, iterationHistory, calls, progress, outcome>>

\* The callback of headers.map on one column of decimal numbers: the
\* column's rawValues, the control point, numericParsed and the ColumnInfo
\* returned
VARIABLES sampled, cpc, parsedNumbers, described

columnVars == <<sampled, cpc, parsedNumbers, described>>

\* The App component: its state hooks, the item stored under HISTORY_KEY in
\* local storage, the reading of Date.now(), and for every call of
\* handleFilesSelect its control point and the values its closure holds
VARIABLES appState, datasetSummary, analysisResult, errorMsg, agentStage,
          agentLogs, history, isHistoryOpen, storage, now, runs

appVars == <<appState, datasetSummary, analysisResult, errorMsg, agentStage,
             agentLogs, history, isHistoryOpen, storage, now, runs>>

\* What no step of parseCSV touches
restVars == <<download, agentVars, columnVars, appVars>>

vars == <<parseVars, restVars>>

----------------------------------------------------------------------------
(* Characters *)

Comma == ","
Semi  == ";"
Tab   == "\t"
Pipe  == "|"
Quote == "\""
Space == " "
CR    == "\r"
Dash  == "-"
Plus  == "+"
Repl  == "U+FFFD"

Digits == {"0", "1", "2", "3", "4", "5", "6", "7", "8", "9"}

DigitVal(c) ==
  CASE c = "0" -> 0 [] c = "1" -> 1 [] c = "2" -> 2 [] c = "3" -> 3
    [] c = "4" -> 4 [] c = "5" -> 5 [] c = "6" -> 6 [] c = "7" -> 7
    [] c = "8" -> 8 [] c = "9" -> 9

WhiteSpace == {Space, Tab, CR}

Min(a, b) == IF a < b THEN a ELSE b

Range(s) == {s[i] : i \in 1..Len(s)}

----------------------------------------------------------------------------
(* String primitives *)

\* String.prototype.trim
RECURSIVE TrimLeft(_)
TrimLeft(s) ==
  IF s # <<>> /\ Head(s) \in WhiteSpace THEN TrimLeft(Tail(s)) ELSE s

RECURSIVE TrimRight(_)
TrimRight(s) ==
  IF s # <<>> /\ s[Len(s)] \in WhiteSpace
    THEN TrimRight(SubSeq(s, 1, Len(s) - 1))
    ELSE s

Trim(s) == TrimRight(TrimLeft(s))

\* s.split(c).length - 1 for a one-character separator c
CountChar(s, c) == Cardinality({i \in 1..Len(s) : s[i] = c})

\* Variant: only the first line is searched
HasReplacementCharInFirstLine(text) ==
  text # <<>> /\ \E j \in 1..Len(text[1]) : text[1][j] = Repl

\* text.includes('\uFFFD')
HasReplacementChar(text) ==
  \E k \in 1..Len(text) : \E j \in 1..Len(text[k]) : text[k][j] = Repl

----------------------------------------------------------------------------
(* Line splitting:  text.split(/\r\n|\n/).filter(l => l.trim() !== '')  *)

\* A segment that is followed by "\n" loses one trailing "\r" (the separator
\* matched there is "\r\n"); the last segment is kept as it is.
SplitText(text) ==
  [k \in 1..Len(text) |->
     IF k < Len(text) /\ text[k] # <<>> /\ text[k][Len(text[k])] = CR
       THEN SubSeq(text[k], 1, Len(text[k]) - 1)
       ELSE text[k]]

NonBlank(l) == Trim(l) # <<>>

\* Variant: blank lines are kept
SplitLinesKeepBlank(text) == SplitText(text)

SplitLines(text) == SelectSeq(SplitText(text), NonBlank)

----------------------------------------------------------------------------
(* Delimiter detection *)

possibleDelimiters == <<Comma, Semi, Tab, Pipe>>

\* Variant: a candidate replaces the best one whenever it occurs at all
RECURSIVE DetectFromAnyCount(_, _, _, _)
DetectFromAnyCount(firstLine, k, best, maxCount) ==
  IF k > Len(possibleDelimiters) THEN best
  ELSE LET d == possibleDelimiters[k]
           count == CountChar(firstLine, d)
       IN IF count > 0
            THEN DetectFromAnyCount(firstLine, k + 1, d, count)
            ELSE DetectFromAnyCount(firstLine, k + 1, best, maxCount)

\* Variant: a candidate replaces the best one on an equal count too
RECURSIVE DetectLastFrom(_, _, _, _)
DetectLastFrom(firstLine, k, best, maxCount) ==
  IF k > Len(possibleDelimiters) THEN best
  ELSE LET d == possibleDelimiters[k]
           count == CountChar(firstLine, d)
       IN IF count >= maxCount
            THEN DetectLastFrom(firstLine, k + 1, d, count)
            ELSE DetectLastFrom(firstLine, k + 1, best, maxCount)

DetectDelimiterLastWins(firstLine) == DetectLastFrom(firstLine, 1, Comma, 0)

\* The forEach over possibleDelimiters: state is <<bestDelimiter, maxCount>>,
\* replaced only by a strictly greater count.
RECURSIVE DetectFrom(_, _, _, _)
DetectFrom(firstLine, k, best, maxCount) ==
  IF k > Len(possibleDelimiters) THEN best
  ELSE LET d == possibleDelimiters[k]
           count == CountChar(firstLine, d)
       IN IF count > maxCount
            THEN DetectFrom(firstLine, k + 1, d, count)
            ELSE DetectFrom(firstLine, k + 1, best, maxCount)

DetectDelimiter(firstLine) == DetectFrom(firstLine, 1, Comma, 0)

----------------------------------------------------------------------------
(* Tokenizer *)

\* Variant: no lookahead, every delimiter separates
AnyQuotesAfter(line, i) == TRUE

\* The lookahead (?=(?:(?:[^"]*"){2})*[^"]*$): the rest of the line after
\* position i holds an even number of double quotes.
EvenQuotesAfter(line, i) ==
  CountChar(SubSeq(line, i + 1, Len(line)), Quote) % 2 = 0

IsSeparator(line, d, i) == line[i] = d /\ EvenQuotesAfter(line, i)

\* line.split(splitRegex): the pieces between the separator positions
RECURSIVE SplitFrom(_, _, _, _)
SplitFrom(line, d, i, cur) ==
  IF i > Len(line) THEN <<cur>>
  ELSE IF IsSeparator(line, d, i)
         THEN <<cur>> \o SplitFrom(line, d, i + 1, <<>>)
         ELSE SplitFrom(line, d, i + 1, Append(cur, line[i]))

\* Variant: empty pieces are dropped
RegexSplitNonEmpty(line, d) ==
  SelectSeq(SplitFrom(line, d, 1, <<>>), LAMBDA piece : piece # <<>>)

RegexSplit(line, d) == SplitFrom(line, d, 1, <<>>)

\* v.replace(/^"|"$/g, ''): one leading quote and, when it is another
\* character, one trailing quote
StripQuotes(v) ==
  LET a == IF v # <<>> /\ Head(v) = Quote THEN Tail(v) ELSE v
  IN IF a # <<>> /\ a[Len(a)] = Quote
       THEN SubSeq(a, 1, Len(a) - 1)
       ELSE a

CleanField(v) == StripQuotes(Trim(v))

splitLine(line, d) ==
  LET parts == RegexSplit(line, d)
  IN [k \in 1..Len(parts) |-> CleanField(parts[k])]

----------------------------------------------------------------------------
(* Number(v) and Date.parse(v) *)

IsDigits(s) == s # <<>> /\ \A i \in 1..Len(s) : s[i] \in Digits

RECURSIVE DigitsVal(_, _)
DigitsVal(s, base) ==
  IF s = <<>> THEN 0
  ELSE DigitsVal(SubSeq(s, 1, Len(s) - 1), base) * base + DigitVal(s[Len(s)])

OctalDigits == {"0", "1", "2", "3", "4", "5", "6", "7"}

IsOctalLiteral(s) ==
  /\ Len(s) >= 3
  /\ s[1] = "0"
  /\ s[2] = "o"
  /\ \A i \in 3..Len(s) : s[i] \in OctalDigits

IsSigned(s) == s # <<>> /\ Head(s) \in {Dash, Plus}

\* !isNaN(Number(v)): surrounding white space is ignored, the empty string
\* is 0, otherwise an optionally signed decimal integer or a 0o literal.
\* The characters '.', 'e', 'x', 'b' and the word Infinity, which other
\* numeric literals need, do not occur in the modelled inputs.
NumberOk(v) ==
  LET s == Trim(v)
  IN \/ s = <<>>
     \/ IsDigits(s)
     \/ IsSigned(s) /\ IsDigits(Tail(s))
     \/ IsOctalLiteral(s)

NumberOf(v) ==
  LET s == Trim(v)
  IN IF s = <<>> THEN 0
     ELSE IF IsOctalLiteral(s) THEN DigitsVal(SubSeq(s, 3, Len(s)), 8)
     ELSE IF Head(s) = Dash THEN 0 - DigitsVal(Tail(s), 10)
     ELSE IF Head(s) = Plus THEN DigitsVal(Tail(s), 10)
     ELSE DigitsVal(s, 10)

IsLeap(y) == (y % 4 = 0 /\ y % 100 # 0) \/ y % 400 = 0

DaysInMonth(y, m) ==
  IF m = 2 THEN (IF IsLeap(y) THEN 29 ELSE 28)
  ELSE IF m \in {4, 6, 9, 11} THEN 30 ELSE 31

\* Days from 1970-01-01 to y-m-d in the proleptic Gregorian calendar
DaysFromCivil(y, m, d) ==
  LET yy  == IF m <= 2 THEN y - 1 ELSE y
      era == yy \div 400
      yoe == yy - era * 400
      mp  == (m + 9) % 12
      doy == (153 * mp + 2) \div 5 + d - 1
      doe == yoe * 365 + yoe \div 4 - yoe \div 100 + doy
  IN era * 146097 + doe - 719468

\* The date-only ISO forms: a year YYYY or an expanded year +YYYYYY or
\* -YYYYYY, optionally followed by -MM or -MM-DD
IsoYearLen(v) == IF IsSigned(v) THEN 7 ELSE 4

IsoYearDigits(v) ==
  IF IsSigned(v) THEN SubSeq(v, 2, 7) ELSE SubSeq(v, 1, 4)

IsoRest(v) == SubSeq(v, IsoYearLen(v) + 1, Len(v))

IsIsoShape(v) ==
  /\ Len(v) >= IsoYearLen(v)
  /\ IsDigits(IsoYearDigits(v))
  /\ LET rest == IsoRest(v)
     IN \/ rest = <<>>
        \/ /\ Len(rest) \in {3, 6}
           /\ \A i \in 1..Len(rest) :
                IF i \in {1, 4} THEN rest[i] = Dash ELSE rest[i] \in Digits

IsoYear(v) ==
  IF v[1] = Dash THEN 0 - DigitsVal(IsoYearDigits(v), 10)
  ELSE DigitsVal(IsoYearDigits(v), 10)

IsoMonth(v) ==
  IF Len(IsoRest(v)) >= 3 THEN DigitsVal(SubSeq(IsoRest(v), 2, 3), 10) ELSE 1

IsoDay(v) ==
  IF Len(IsoRest(v)) = 6 THEN DigitsVal(SubSeq(IsoRest(v), 5, 6), 10) ELSE 1

\* !isNaN(Date.parse(v)).  Date.parse is specified for the ISO forms (the
\* year -000000 is not one) and returns NaN for a string without any digit;
\* the modelled inputs hold no other non-numeric value longer than 5
\* characters.
DateOk(v) ==
  /\ IsIsoShape(v)
  /\ ~(v[1] = Dash /\ IsoYear(v) = 0)
  /\ IsoMonth(v) \in 1..12
  /\ IsoDay(v) \in 1..DaysInMonth(IsoYear(v), IsoMonth(v))

DateParse(v) == DaysFromCivil(IsoYear(v), IsoMonth(v), IsoDay(v))

----------------------------------------------------------------------------
(* Values of the result *)

\* JavaScript's undefined and null, as values no string is equal to
Undefined == <<"undefined">>
Null      == <<"null">>

EncodingError     == [kind |-> "Encoding"]
InsufficientError == [kind |-> "InsufficientData"]
ColumnError       == [kind |-> "ColumnDetection"]
ReadError         == [kind |-> "Read"]
IntegrityError(malformed, limit, expected) ==
  [kind |-> "Integrity", malformed |-> malformed, limit |-> limit,
   expected |-> expected]

ValidationRows == 100
PreviewRows    == 50
SampleRows     == 2000

\* lines.slice(1)
dataLines == Tail(lines)

----------------------------------------------------------------------------
(* Structural integrity check *)

\* The loop  for (i = 1; i < validationLimit; i++)  over lines[i]
CountMalformed(ls, d, limit, expected) ==
  Cardinality({i \in 2..limit : Len(splitLine(ls[i], d)) # expected})

\* malformedCount > validationLimit * 0.2, in integers
TooManyMalformed(malformed, limit) == 5 * malformed > limit

----------------------------------------------------------------------------
(* Preview *)

\* headers.forEach((h, i) => row[h] = values[i]): a later position with the
\* same name overwrites an earlier one; a missing field is undefined.
LastIndexOf(hs, h) ==
  CHOOSE i \in 1..Len(hs) :
    hs[i] = h /\ \A j \in (i + 1)..Len(hs) : hs[j] # h

FieldAt(values, i) == IF i <= Len(values) THEN values[i] ELSE Undefined

PreviewRow(hs, values) ==
  [h \in Range(hs) |-> FieldAt(values, LastIndexOf(hs, h))]

\* Variant: lines.slice(0, 50), which starts at the header line
BuildPreviewFromHeader(ls, d, hs) ==
  LET previewLines == SubSeq(ls, 1, Min(Len(ls), PreviewRows))
  IN [k \in 1..Len(previewLines) |-> PreviewRow(hs, splitLine(previewLines[k], d))]

BuildPreviewRows(ls, d, hs) ==
  LET previewLines == SubSeq(ls, 2, Min(Len(ls), PreviewRows + 1))
  IN [k \in 1..Len(previewLines) |-> PreviewRow(hs, splitLine(previewLines[k], d))]

----------------------------------------------------------------------------
(* Sample collection *)

Present(val) == val # Undefined /\ val # <<>>

\* columnValues[index]: the defined, non-empty values of column index in the
\* first limit data rows, in row order (no key means the empty list)
CollectColumn(rows, index) ==
  SelectSeq([i \in 1..Len(rows) |-> FieldAt(rows[i], index)], Present)

CollectValues(dls, d, hs, limit) ==
  LET rows == [i \in 1..limit |-> splitLine(dls[i], d)]
  IN [index \in 1..Len(hs) |-> CollectColumn(rows, index)]

----------------------------------------------------------------------------
(* Column analysis *)

\* !isNaN(Number(v)) && v !== ''
CountsAsNumeric(v) == NumberOk(v) /\ v # <<>>

\* v.length > 5 && isNaN(Number(v)) && !isNaN(Date.parse(v))
CountsAsDate(v) == Len(v) > 5 /\ ~NumberOk(v) /\ DateOk(v)

\* Variant: every value is pushed, one that is no number as 0
NumericParsedAll(rawValues) ==
  [k \in 1..Len(rawValues) |->
     IF CountsAsNumeric(rawValues[k]) THEN NumberOf(rawValues[k]) ELSE 0]

NumericParsed(rawValues) ==
  LET kept == SelectSeq(rawValues, CountsAsNumeric)
  IN [k \in 1..Len(kept) |-> NumberOf(kept[k])]

DateParsed(rawValues) ==
  LET kept == SelectSeq(rawValues, CountsAsDate)
  IN [k \in 1..Len(kept) |-> DateParse(kept[k])]

\* Variant: >= 0.8
IsNumericColumnAtLeast(numericCount, n) == n > 0 /\ 5 * numericCount >= 4 * n

\* (numericCount / rawValues.length) > 0.8, in integers
IsNumericColumn(numericCount, n) == n > 0 /\ 5 * numericCount > 4 * n

\* !isNumeric && (dateCount / rawValues.length) > 0.6, in integers
IsDateColumn(isNumeric, dateCount, n) ==
  ~isNumeric /\ n > 0 /\ 5 * dateCount > 3 * n

\* Variant: a column that is neither numeric nor date is left unknown
ColumnTypeOrUnknown(isNumeric, isDate) ==
  IF isNumeric THEN "numeric" ELSE IF isDate THEN "date" ELSE "unknown"

ColumnType(isNumeric, isDate) ==
  IF isNumeric THEN "numeric" ELSE IF isDate THEN "date" ELSE "string"

SeqMin(s) == CHOOSE x \in Range(s) : \A y \in Range(s) : x <= y
SeqMax(s) == CHOOSE x \in Range(s) : \A y \in Range(s) : x >= y

RECURSIVE SeqSum(_)
SeqSum(s) == IF s = <<>> THEN 0 ELSE Head(s) + SeqSum(Tail(s))

RECURSIVE Gcd(_, _)
Gcd(a, b) == IF b = 0 THEN a ELSE Gcd(b, a % b)

Abs(a) == IF a < 0 THEN 0 - a ELSE a

\* The quotient num / den (den > 0) as a fraction in lowest terms
Ratio(num, den) ==
  LET g == Gcd(Abs(num), den)
  IN [num |-> num \div g, den |-> den \div g]

\* numericParsed.sort((a, b) => a - b)
RECURSIVE InsertAsc(_, _)
InsertAsc(sorted, x) ==
  IF sorted = <<>> \/ sorted[Len(sorted)] <= x THEN Append(sorted, x)
  ELSE Append(InsertAsc(SubSeq(sorted, 1, Len(sorted) - 1), x),
              sorted[Len(sorted)])

RECURSIVE SortFrom(_, _, _)
SortFrom(s, k, acc) ==
  IF k > Len(s) THEN acc ELSE SortFrom(s, k + 1, InsertAsc(acc, s[k]))

\* Variant: the values are left in sample order
SortOmitted(s) == s

SortAsc(s) == SortFrom(s, 1, <<>>)

\* Math.floor(n * 0.25), Math.floor(n * 0.5), Math.floor(n * 0.75)
Q1Index(n)     == n \div 4
MedianIndex(n) == n \div 2
Q3Index(n)     == (3 * n) \div 4

\* sorted[index] for a zero-based index; undefined past the end
ElementAt(sorted, index) ==
  IF index + 1 <= Len(sorted) THEN sorted[index + 1] ELSE Undefined

Quantiles(sorted) ==
  [q1     |-> ElementAt(sorted, Q1Index(Len(sorted))),
   median |-> ElementAt(sorted, MedianIndex(Len(sorted))),
   q3     |-> ElementAt(sorted, Q3Index(Len(sorted)))]

\* Decimal digits of a natural number
DigitChar(n) ==
  CASE n = 0 -> "0" [] n = 1 -> "1" [] n = 2 -> "2" [] n = 3 -> "3"
    [] n = 4 -> "4" [] n = 5 -> "5" [] n = 6 -> "6" [] n = 7 -> "7"
    [] n = 8 -> "8" [] n = 9 -> "9"

RECURSIVE NatToString(_)
NatToString(n) ==
  IF n < 10 THEN <<DigitChar(n)>>
  ELSE Append(NatToString(n \div 10), DigitChar(n % 10))

\* n.toString() for an integer n
IntToString(n) ==
  IF n < 0 THEN <<Dash>> \o NatToString(0 - n) ELSE NatToString(n)

\* x.toFixed(1) for x = tenths / 10
ToFixed1(tenths) ==
  LET a == Abs(tenths)
      digits == NatToString(a \div 10) \o <<".", DigitChar(a % 10)>>
  IN IF tenths < 0 THEN <<Dash>> \o digits ELSE digits

\* n decimal digits of v, zero-padded
RECURSIVE Padded(_, _)
Padded(v, n) ==
  IF n = 0 THEN <<>> ELSE Append(Padded(v \div 10, n - 1), DigitChar(v % 10))

\* The calendar date of a day number, as [y, m, d]
CivilFromDays(days) ==
  LET z   == days + 719468
      era == z \div 146097
      doe == z - era * 146097
      yoe == (doe - doe \div 1460 + doe \div 36524 - doe \div 146096) \div 365
      doy == doe - (365 * yoe + yoe \div 4 - yoe \div 100)
      mp  == (5 * doy + 2) \div 153
      d   == doy - (153 * mp + 2) \div 5 + 1
      m   == IF mp < 10 THEN mp + 3 ELSE mp - 9
      y   == yoe + era * 400 + (IF m <= 2 THEN 1 ELSE 0)
  IN [y |-> y, m |-> m, d |-> d]

\* new Date(ms).toISOString().split('T')[0] for the day the instant falls on
IsoDateLabel(days) ==
  LET c == CivilFromDays(days)
  IN Padded(c.y, 4) \o <<Dash>> \o Padded(c.m, 2) \o <<Dash>> \o Padded(c.d, 2)

BinCount == 10

\* The values counted in bin i (zero-based) of the range min..max: those
\* with rangeStart <= v < rangeEnd, and v <= rangeEnd in the last bin, where
\* rangeStart = min + i * step, rangeEnd = min + (i + 1) * step and
\* step = (max - min) / BinCount; the inequalities are multiplied by BinCount.
InBin(v, i, min, max) ==
  /\ BinCount * (v - min) >= i * (max - min)
  /\ IF i = BinCount - 1
       THEN BinCount * (v - min) <= (i + 1) * (max - min)
       ELSE BinCount * (v - min) < (i + 1) * (max - min)

BinValue(parsed, i, min, max) ==
  Cardinality({k \in 1..Len(parsed) : InBin(parsed[k], i, min, max)})

\* rangeStart.toFixed(1): ten times rangeStart is the integer
\* 10 * min + i * (max - min) when BinCount is 10
NumericBinName(i, min, max) == ToFixed1(10 * min + i * (max - min))

NumericHistogram(parsed, min, max) ==
  IF max - min > 0
    THEN [b \in 1..BinCount |->
            [name  |-> NumericBinName(b - 1, min, max),
             value |-> BinValue(parsed, b - 1, min, max)]]
    ELSE <<[name |-> IntToString(min), value |-> Len(parsed)]>>

\* The day on which rangeStart falls (min and max are day numbers)
DateBinName(i, min, max) == IsoDateLabel(min + (i * (max - min)) \div BinCount)

DateHistogram(parsed, min, max) ==
  IF max - min > 0
    THEN [b \in 1..BinCount |->
            [name  |-> DateBinName(b - 1, min, max),
             value |-> BinValue(parsed, b - 1, min, max)]]
    ELSE <<[name |-> IsoDateLabel(min), value |-> Len(parsed)]>>

NumericStats(numericParsed) ==
  LET min == SeqMin(numericParsed)
      max == SeqMax(numericParsed)
  IN [min       |-> min,
      max       |-> max,
      mean      |-> Ratio(SeqSum(numericParsed), Len(numericParsed)),
      histogram |-> NumericHistogram(numericParsed, min, max),
      quantiles |-> Quantiles(SortAsc(numericParsed))]

DateStats(dateParsed) ==
  LET min == SeqMin(dateParsed)
      max == SeqMax(dateParsed)
  IN [min       |-> min,
      max       |-> max,
      histogram |-> DateHistogram(dateParsed, min, max)]

TopValuesLimit == 20
NameLimit      == 15

\* A key that Object.entries lists before the other keys, in numeric order:
\* the canonical decimal form of an array index (inputs hold no number of
\* ten or more digits)
IsIndexKey(v) ==
  IsDigits(v) /\ Len(v) <= 9 /\ (Len(v) = 1 \/ v[1] # "0")

FirstIndexOf(rawValues, v) ==
  CHOOSE k \in 1..Len(rawValues) :
    rawValues[k] = v /\ \A j \in 1..(k - 1) : rawValues[j] # v

\* The elements of a finite set of integers in ascending order
RECURSIVE Ascending(_)
Ascending(S) ==
  IF S = {} THEN <<>>
  ELSE LET least == CHOOSE x \in S : \A y \in S : x <= y
       IN <<least>> \o Ascending(S \ {least})

\* The key whose assignment on a plain object is the setter inherited from
\* Object.prototype: counts['__proto__'] = '[object Object]1' stores nothing
ProtoKey == <<"_", "_", "p", "r", "o", "t", "o", "_", "_">>

\* Object.entries(counts) after counts[v] = (counts[v] || 0) + 1 for every v:
\* index keys in numeric order, then the other keys in the order of their
\* first occurrence; '__proto__' is never an own key.  (The names of the
\* methods counts inherits, such as 'constructor', do not occur in the
\* modelled inputs.)
CountEntries(rawValues) ==
  LET distinct  == Range(rawValues) \ {ProtoKey}
      indexKeys == {v \in distinct : IsIndexKey(v)}
      otherKeys == distinct \ indexKeys
      byNumber  == Ascending({DigitsVal(v, 10) : v \in indexKeys})
      byFirst   == Ascending({FirstIndexOf(rawValues, v) : v \in otherKeys})
      countOf(v) == Cardinality({k \in 1..Len(rawValues) : rawValues[k] = v})
  IN [k \in 1..Len(byNumber) |->
        [name |-> NatToString(byNumber[k]),
         value |-> countOf(NatToString(byNumber[k]))]]
     \o [k \in 1..Len(byFirst) |->
          [name |-> rawValues[byFirst[k]],
           value |-> countOf(rawValues[byFirst[k]])]]

\* entries.sort((a, b) => b[1] - a[1]): descending by count, equal counts
\* keeping their order
RECURSIVE InsertByCount(_, _)
InsertByCount(sorted, e) ==
  IF sorted = <<>> \/ sorted[Len(sorted)].value >= e.value
    THEN Append(sorted, e)
    ELSE Append(InsertByCount(SubSeq(sorted, 1, Len(sorted) - 1), e),
                sorted[Len(sorted)])

RECURSIVE SortByCountFrom(_, _, _)
SortByCountFrom(entries, k, acc) ==
  IF k > Len(entries) THEN acc
  ELSE SortByCountFrom(entries, k + 1, InsertByCount(acc, entries[k]))

SortByCount(entries) == SortByCountFrom(entries, 1, <<>>)

\* name.length > 15 ? name.substring(0, 15) + '...' : name
DisplayName(name) ==
  IF Len(name) > NameLimit
    THEN SubSeq(name, 1, NameLimit) \o <<".", ".", ".">>
    ELSE name

TopValues(rawValues) ==
  LET sorted == SortByCount(CountEntries(rawValues))
      top    == SubSeq(sorted, 1, Min(Len(sorted), TopValuesLimit))
  IN [k \in 1..Len(top) |->
        [name |-> DisplayName(top[k].name), value |-> top[k].value]]

StringStats(rawValues) == [topValues |-> TopValues(rawValues)]

\* Variant: the stats of a column without values stay the empty object
BuildColumnBareStats(header, rawValues, limit) ==
  LET numericParsed == NumericParsed(rawValues)
      dateParsed    == DateParsed(rawValues)
      isNumeric     == IsNumericColumn(Len(numericParsed), Len(rawValues))
      isDate        == IsDateColumn(isNumeric, Len(dateParsed), Len(rawValues))
  IN [name    |-> header,
      type    |-> ColumnType(isNumeric, isDate),
      missing |-> limit - Len(rawValues),
      unique  |-> Cardinality(Range(rawValues)),
      example |-> IF rawValues # <<>> THEN rawValues[1] ELSE Null,
      stats   |-> IF isNumeric THEN NumericStats(numericParsed)
                  ELSE IF isDate THEN DateStats(dateParsed)
                  ELSE IF rawValues = <<>> THEN <<>>
                  ELSE StringStats(rawValues)]

BuildColumn(header, rawValues, limit) ==
  LET numericParsed == NumericParsed(rawValues)
      dateParsed    == DateParsed(rawValues)
      isNumeric     == IsNumericColumn(Len(numericParsed), Len(rawValues))
      isDate        == IsDateColumn(isNumeric, Len(dateParsed), Len(rawValues))
  IN [name    |-> header,
      type    |-> ColumnType(isNumeric, isDate),
      missing |-> limit - Len(rawValues),
      unique  |-> Cardinality(Range(rawValues)),
      example |-> IF rawValues # <<>> THEN rawValues[1] ELSE Null,
      stats   |-> IF isNumeric THEN NumericStats(numericParsed)
                  ELSE IF isDate THEN DateStats(dateParsed)
                  ELSE StringStats(rawValues)]

BuildColumns(hs, values, limit) ==
  [index \in 1..Len(hs) |-> BuildColumn(hs[index], values[index], limit)]

----------------------------------------------------------------------------
(* Number values: IEEE 754 binary64, as the engine computes them *)

\* A natural number of any size: its digits in base 2^15, least significant
\* first, without leading zero digits (zero is the empty sequence)
LimbBits == 15
Base     == 32768

RECURSIVE Pow2(_)
Pow2(n) == IF n = 0 THEN 1 ELSE 2 * Pow2(n - 1)

Limb(a, i) == IF i \in 1..Len(a) THEN a[i] ELSE 0

\* The highest position below i at which cond holds, or 0: d is the
\* distance down from i
HighestBelow(i, cond(_)) ==
  i - (CHOOSE d \in 1..i :
         /\ d = i \/ cond(i - d)
         /\ \A c \in 1..(d - 1) : ~cond(i - c))

BigNorm(a) == SubSeq(a, 1, HighestBelow(Len(a) + 1, LAMBDA j : a[j] # 0))

BigOfNat(n) == BigNorm(<<n % Base, (n \div Base) % Base, n \div (Base * Base)>>)

\* -1, 0 or 1 as a < b, a = b or a > b
BigCmp(a, b) ==
  IF Len(a) < Len(b) THEN -1
  ELSE IF Len(a) > Len(b) THEN 1
  ELSE LET j == HighestBelow(Len(a) + 1, LAMBDA i : a[i] # b[i])
       IN IF j = 0 THEN 0 ELSE IF a[j] < b[j] THEN -1 ELSE 1

\* The carry into position i of a + b: that of the nearest position below
\* whose digits do not add up to Base - 1
Carry(a, b, i) ==
  LET j == HighestBelow(i, LAMBDA p : Limb(a, p) + Limb(b, p) # Base - 1)
  IN IF j > 0 /\ Limb(a, j) + Limb(b, j) >= Base THEN 1 ELSE 0

BigAdd(a, b) ==
  LET n == (IF Len(a) > Len(b) THEN Len(a) ELSE Len(b)) + 1
  IN BigNorm([i \in 1..n |->
                (Limb(a, i) + Limb(b, i) + Carry(a, b, i)) % Base])

\* The borrow from position i of a - b: whether a is below b at the nearest
\* position below where they differ
Borrow(a, b, i) ==
  LET j == HighestBelow(i, LAMBDA p : Limb(a, p) # Limb(b, p))
  IN IF j > 0 /\ Limb(a, j) < Limb(b, j) THEN 1 ELSE 0

\* a - b for a >= b
BigSub(a, b) ==
  BigNorm([i \in 1..Len(a) |->
             (a[i] - Limb(b, i) - Borrow(a, b, i) + Base) % Base])

Zeros(n) == [i \in 1..n |-> 0]

\* a * 2^t and floor(a / 2^t)
BigShl(a, t) ==
  LET p == Pow2(t % LimbBits)
  IN IF a = <<>> THEN a
     ELSE Zeros(t \div LimbBits) \o
          BigNorm([i \in 1..(Len(a) + 1) |->
                ((Limb(a, i) * p) % Base) + ((Limb(a, i - 1) * p) \div Base)])

BigShr(a, t) ==
  LET p    == Pow2(t % LimbBits)
      skip == t \div LimbBits
  IN BigNorm([i \in 1..(Len(a) - skip) |->
                (a[i + skip] \div p) + (Limb(a, i + skip + 1) % p) * (Base \div p)])

\* a * k for 0 <= k < Base: the low parts of the digit products plus their
\* high parts one position up
BigMulSmall(a, k) ==
  BigAdd(BigNorm([i \in 1..Len(a) |-> (a[i] * k) % Base]),
         BigNorm([i \in 1..(Len(a) + 1) |-> (Limb(a, i - 1) * k) \div Base]))

RECURSIVE BitLen(_)
BitLen(n) == IF n = 0 THEN 0 ELSE 1 + BitLen(n \div 2)

BigBitLen(a) ==
  IF a = <<>> THEN 0 ELSE LimbBits * (Len(a) - 1) + BitLen(a[Len(a)])

BigIsOdd(a) == a # <<>> /\ a[1] % 2 = 1

\* The number of zero bits below the lowest one bit of a # 0
RECURSIVE LowZeros(_)
LowZeros(n) == IF n % 2 = 1 THEN 0 ELSE 1 + LowZeros(n \div 2)

BigLowZeros(a) ==
  LET i == CHOOSE j \in 1..Len(a) : a[j] # 0 /\ \A c \in 1..(j - 1) : a[c] = 0
  IN LimbBits * (i - 1) + LowZeros(a[i])

\* A Number: NaN, Infinity, or the finite value m * 2^e with m odd (zero is
\* m = 0, e = 0).  Only values >= 0 occur.
MantissaBits == 53
MinExponent  == -1074
MaxBits      == 1024

NaN      == [k |-> "nan", m |-> <<>>, e |-> 0]
Infinity == [k |-> "inf", m |-> <<>>, e |-> 0]
Zero     == [k |-> "fin", m |-> <<>>, e |-> 0]

Finite(m, e) ==
  IF m = <<>> THEN Zero
  ELSE IF BigBitLen(m) + e > MaxBits THEN Infinity
  ELSE LET z == BigLowZeros(m)
       IN [k |-> "fin", m |-> BigShr(m, z), e |-> e + z]

\* N / (M * 2^t) as a pair with the same ratio
Scaled(N, M, t) ==
  IF t >= 0 THEN [n |-> N, d |-> BigShl(M, t)]
  ELSE [n |-> BigShl(N, 0 - t), d |-> M]

\* One step of the long division of r by D: the quotient bit at 2^k, Dk
\* being D * 2^k and q2 twice the quotient so far
DivBit(q2, r, Dk) ==
  IF BigCmp(r, Dk) >= 0 THEN [q |-> BigAdd(q2, <<1>>), r |-> BigSub(r, Dk)]
  ELSE [q |-> q2, r |-> r]

DivStep(st, D, k) == DivBit(BigShl(st.q, 1), st.r, BigShl(D, k))

\* The steps for the bits hi down to lo, st.q being the quotient bits above
\* hi and st.r < D * 2^(hi+1) the remainder so far
RECURSIVE DivLoop(_, _, _, _)
DivLoop(st, D, hi, lo) ==
  IF hi = lo THEN DivStep(st, D, hi)
  ELSE LET mid   == (hi + lo) \div 2
           upper == DivLoop(st, D, hi, mid + 1)
       IN IF upper.r = <<>>
            THEN [q |-> BigShl(upper.q, mid - lo + 1), r |-> <<>>]
            ELSE DivLoop(upper, D, mid, lo)

\* The bits of a below bit t
BigLowBits(a, t) ==
  LET p    == Pow2(t % LimbBits)
      skip == t \div LimbBits
  IN IF skip >= Len(a) THEN a
     ELSE BigNorm([i \in 1..(skip + 1) |-> IF i <= skip THEN a[i] ELSE a[i] % p])

\* The quotient and remainder of N by M * 2^t, or of N * 2^-t by M when
\* t < 0, the quotient being below 2^53; by shifting when M is 1
CutAt(N, M, t) ==
  IF M = <<1>>
    THEN IF t >= 0 THEN [q |-> BigShr(N, t), r |-> BigLowBits(N, t)]
         ELSE [q |-> BigShl(N, 0 - t), r |-> <<>>]
    ELSE LET s == Scaled(N, M, t)
         IN DivLoop([q |-> <<>>, r |-> s.n], s.d, MantissaBits - 1, 0)

\* The Number nearest to N / M * 2^e, ties to the even significand: the
\* quotient is cut at the bit 2^t, where t leaves 53 significant bits but
\* is not below the least exponent
\* The exponent t of the cut: t0 + 1 when N / M reaches 2^(t0 + 53), else
\* t0, and not below the least exponent
CutExponent(N, M, e, t0) ==
  LET s0 == Scaled(N, M, t0 + MantissaBits)
      t1 == IF BigCmp(s0.n, s0.d) >= 0 THEN t0 + 1 ELSE t0
  IN IF t1 < MinExponent - e THEN MinExponent - e ELSE t1

\* q, or q + 1 when the remainder is above half the unit (c > 0) or is half
\* of it (c = 0) and q is odd
TiesToEven(q, c) ==
  IF c > 0 \/ (c = 0 /\ BigIsOdd(q)) THEN BigAdd(q, <<1>>) ELSE q

Rounded(qr, unit, e) ==
  IF qr.r = <<>> THEN Finite(qr.q, e)
  ELSE Finite(TiesToEven(qr.q, BigCmp(BigShl(qr.r, 1), unit)), e)

RoundAt(N, M, e, t) ==
  Rounded(CutAt(N, M, t), IF t >= 0 THEN BigShl(M, t) ELSE M, e + t)

RoundRatio(N, M, e) ==
  IF N = <<>> THEN Zero
  ELSE RoundAt(N, M, e,
         CutExponent(N, M, e, BigBitLen(N) - BigBitLen(M) - MantissaBits))

IsNaN(x)    == x.k = "nan"
IsFinite(x) == x.k = "fin"

\* x.m * 2^x.e and y.m * 2^y.e over the common exponent
Common(x, y) ==
  LET el == IF x.e < y.e THEN x.e ELSE y.e
  IN [a |-> BigShl(x.m, x.e - el), b |-> BigShl(y.m, y.e - el), e |-> el]

\* x < y, x <= y (false when either is NaN)
NumLt(x, y) ==
  /\ ~IsNaN(x) /\ ~IsNaN(y)
  /\ IsFinite(x)
  /\ \/ ~IsFinite(y)
     \/ LET c == Common(x, y) IN BigCmp(c.a, c.b) < 0

NumLe(x, y) == ~IsNaN(x) /\ ~IsNaN(y) /\ (x = y \/ NumLt(x, y))

\* x + y
NumAdd(x, y) ==
  IF IsNaN(x) \/ IsNaN(y) THEN NaN
  ELSE IF ~IsFinite(x) \/ ~IsFinite(y) THEN Infinity
  ELSE LET c == Common(x, y) IN RoundRatio(BigAdd(c.a, c.b), <<1>>, c.e)

\* x - y for x >= y
NumSub(x, y) ==
  IF IsNaN(x) \/ IsNaN(y) THEN NaN
  ELSE IF ~IsFinite(y) THEN NaN
  ELSE IF ~IsFinite(x) THEN Infinity
  ELSE LET c == Common(x, y) IN RoundRatio(BigSub(c.a, c.b), <<1>>, c.e)

\* i * x and x / n for small naturals i and n > 0
NumTimes(i, x) ==
  IF IsNaN(x) THEN NaN
  ELSE IF ~IsFinite(x) THEN (IF i = 0 THEN NaN ELSE Infinity)
  ELSE RoundRatio(BigMulSmall(x.m, i), <<1>>, x.e)

NumOver(x, n) ==
  IF IsFinite(x) THEN RoundRatio(x.m, BigOfNat(n), x.e) ELSE x

\* a * 10^n: by halves of n, four powers at a time at the end
RECURSIVE BigTimesPow10(_, _)
BigTimesPow10(a, n) ==
  IF n = 0 \/ a = <<>> THEN a
  ELSE IF n <= 4 THEN BigMulSmall(a, 10 ^ n)
  ELSE LET half == BigTimesPow10(a, n \div 2)
       IN IF half = <<>> THEN half
          ELSE BigTimesPow10(half, n - n \div 2)

\* The digits of a decimal numeral as a natural number: up to eight digits
\* at once, more by halves
RECURSIVE BigOfDigits(_)
BigOfDigits(s) ==
  IF Len(s) <= 8 THEN BigOfNat(DigitsVal(s, 10))
  ELSE BigAdd(BigTimesPow10(BigOfDigits(SubSeq(s, 1, Len(s) \div 2)),
                            Len(s) - Len(s) \div 2),
              BigOfDigits(SubSeq(s, Len(s) \div 2 + 1, Len(s))))

\* The position of the first character of s that is in chars, or Len(s) + 1
RECURSIVE FirstOf(_, _, _)
FirstOf(s, chars, i) ==
  IF i > Len(s) \/ s[i] \in chars THEN i ELSE FirstOf(s, chars, i + 1)

AllDigits(s) == \A i \in 1..Len(s) : s[i] \in Digits

\* StrUnsignedDecimalLiteral: digits with an optional fraction, or a
\* fraction alone, and an optional exponent e[+-]digits
DecimalParts(s) ==
  LET ePos == FirstOf(s, {"e", "E"}, 1)
      body == SubSeq(s, 1, ePos - 1)
      expo == SubSeq(s, ePos + 1, Len(s))
      dot  == FirstOf(body, {"."}, 1)
  IN [int    |-> SubSeq(body, 1, dot - 1),
      frac   |-> SubSeq(body, dot + 1, Len(body)),
      hasExp |-> ePos <= Len(s),
      neg    |-> expo # <<>> /\ Head(expo) = Dash,
      exp    |-> IF IsSigned(expo) THEN Tail(expo) ELSE expo]

IsDecimalShape(p) ==
  /\ AllDigits(p.int) /\ AllDigits(p.frac)
  /\ p.int \o p.frac # <<>>
  /\ p.hasExp => IsDigits(p.exp)

IsDecimalLiteral(s) == IsDecimalShape(DecimalParts(s))

\* The Number nearest to s * 10^p, s being a natural number
DecimalAsNumber(s, p) ==
  RoundRatio(IF p >= 0 THEN BigTimesPow10(s, p) ELSE s,
             IF p >= 0 THEN <<1>> ELSE BigTimesPow10(<<1>>, 0 - p), 0)

\* The Number a decimal literal denotes: digits * 10^x rounded once, x
\* being the exponent less the length of the fraction
DecimalOf(parts) ==
  DecimalAsNumber(BigOfDigits(parts.int \o parts.frac),
                  (IF parts.neg THEN -1 ELSE 1) * DigitsVal(parts.exp, 10)
                    - Len(parts.frac))

DecimalValue(s) == DecimalOf(DecimalParts(s))

\* The quotient q and remainder r of N by M > 0
BigDivMod(N, M) ==
  LET hi == IF BigBitLen(N) > BigBitLen(M) THEN BigBitLen(N) - BigBitLen(M)
            ELSE 0
  IN DivLoop([q |-> <<>>, r |-> N], M, hi, 0)

\* The decimal digits of a natural number (none for zero)
RECURSIVE BigDigits(_)
BigDigits(a) ==
  IF a = <<>> THEN <<>>
  ELSE LET tens == BigDivMod(a, <<10>>)
       IN Append(BigDigits(tens.q), DigitChar(Limb(tens.r, 1)))

\* The finite x > 0 times 10^p as a ratio n / d of natural numbers
TimesPow10(x, p) ==
  Scaled(IF p >= 0 THEN BigTimesPow10(x.m, p) ELSE x.m,
         IF p >= 0 THEN <<1>> ELSE BigTimesPow10(<<1>>, 0 - p), 0 - x.e)

\* Whether the ratio s.n / s.d is at least 1
AtLeastOne(s) == BigCmp(s.n, s.d) >= 0

\* The n with 10^(n-1) <= x < 10^n for finite x > 0, found next to the
\* estimate that the position of the leading bit gives
DecimalExponent(x) ==
  LET lead  == BigBitLen(x.m) + x.e - 1
      guess == (lead * 30103) \div 100000
  IN CHOOSE n \in guess..(guess + 2) :
       AtLeastOne(TimesPow10(x, 1 - n)) /\ ~AtLeastOne(TimesPow10(x, 0 - n))

\* Number::toString, step 5: the shortest digits s, of length k, with
\* s * 10^(n-k) the Number x; of two such s the nearer to x, the even one
\* when both are as near.  The result is s and the power of ten n - k.
RECURSIVE ShortestDecimal(_, _, _)

\* below when it denotes x and is the nearer or the only one, else above
\* when it denotes x, else the search with one digit more
ShortestAmong(x, n, k, below, above, lower, ok) ==
  IF ok[below] /\ (lower \/ ~ok[above]) THEN [s |-> below, p |-> n - k]
  ELSE IF ok[above] THEN [s |-> above, p |-> n - k]
  ELSE ShortestDecimal(x, n, k + 1)

\* below and above = below + 1 are the k-digit numbers around x * 10^(k-n);
\* half compares the remainder to half the divisor
ShortestAround(x, n, k, below, above, half) ==
  ShortestAmong(x, n, k, below, above,
    half < 0 \/ (half = 0 /\ ~BigIsOdd(below)),
    [s \in {below, above} |-> s # <<>> /\ DecimalAsNumber(s, n - k) = x])

ShortestNear(x, n, k, floor, d) ==
  ShortestAround(x, n, k, floor.q, BigAdd(floor.q, <<1>>),
                 BigCmp(BigShl(floor.r, 1), d))

ShortestOver(x, n, k, scaled) ==
  ShortestNear(x, n, k, BigDivMod(scaled.n, scaled.d), scaled.d)

ShortestDecimal(x, n, k) == ShortestOver(x, n, k, TimesPow10(x, k - n))

\* digits without its zeros at the end
RECURSIVE WithoutZeros(_)
WithoutZeros(digits) ==
  IF digits # <<>> /\ digits[Len(digits)] = "0"
    THEN WithoutZeros(SubSeq(digits, 1, Len(digits) - 1))
    ELSE digits

Repeat(c, n) == [i \in 1..n |-> c]

\* Number::toString(x), radix 10
\* Number::toString, steps 6 to 10: the k digits, their value being
\* 0.digits * 10^n
DigitsToString(digits, k, n) ==
  IF k <= n /\ n <= 21 THEN digits \o Repeat("0", n - k)
  ELSE IF 0 < n /\ n <= 21
    THEN SubSeq(digits, 1, n) \o <<".">> \o SubSeq(digits, n + 1, k)
  ELSE IF -6 < n /\ n <= 0
    THEN <<"0", ".">> \o Repeat("0", 0 - n) \o digits
  ELSE (IF k = 1 THEN digits ELSE <<digits[1], ".">> \o Tail(digits))
       \o <<"e">>
       \o (IF n >= 1 THEN <<Plus>> \o NatToString(n - 1)
           ELSE <<Dash>> \o NatToString(1 - n))

SignificantToString(digits, n) == DigitsToString(digits, Len(digits), n)

DecimalToString(all, p) == SignificantToString(WithoutZeros(all), p + Len(all))

FoundToString(found) == DecimalToString(BigDigits(found.s), found.p)

NumberToString(x) ==
  IF IsNaN(x) THEN <<"N", "a", "N">>
  ELSE IF ~IsFinite(x) THEN <<"I", "n", "f", "i", "n", "i", "t", "y">>
  ELSE IF x = Zero THEN <<"0">>
  ELSE FoundToString(ShortestDecimal(x, DecimalExponent(x), 1))

TenTo21 == DecimalAsNumber(<<1>>, 21)

\* x.toFixed(1): the n with n / 10 nearest to x, the larger of two, written
\* with a decimal point before its last digit; Number::toString(x) for x
\* not below 10^21 or not finite
Tenths(x) ==
  IF x.e >= 0 THEN BigShl(BigMulSmall(x.m, 10), x.e)
  ELSE BigShr(BigAdd(BigMulSmall(x.m, 20), BigShl(<<1>>, 0 - x.e)), 1 - x.e)

PaddedTo2(digits) ==
  IF Len(digits) < 2 THEN Repeat("0", 2 - Len(digits)) \o digits ELSE digits

WithPoint(padded) ==
  SubSeq(padded, 1, Len(padded) - 1) \o <<".", padded[Len(padded)]>>

NumberToFixed1(x) ==
  IF ~IsFinite(x) \/ NumLe(TenTo21, x) THEN NumberToString(x)
  ELSE WithPoint(PaddedTo2(BigDigits(Tenths(x))))

----------------------------------------------------------------------------
(* A column of decimal numbers *)

InfinityWord == <<"I", "n", "f", "i", "n", "i", "t", "y">>

\* Number(v): surrounding white space is ignored, the empty string is 0,
\* otherwise Infinity or an unsigned decimal literal; NaN for anything else
\* (the inputs of the decimal columns hold no sign and no 0x, 0o or 0b
\* literal)
StringToNumber(s) ==
  IF s = <<>> THEN Zero
  ELSE IF s = InfinityWord THEN Infinity
  ELSE IF IsDecimalLiteral(s) THEN DecimalValue(s)
  ELSE NaN

ToNumber(v) == StringToNumber(Trim(v))

\* !isNaN(n) && v !== ''
IsNumberValue(v) == ~IsNaN(ToNumber(v)) /\ v # <<>>

\* v.length > 5 && isNaN(Number(v)) && !isNaN(Date.parse(v))
IsDateValue(v) == Len(v) > 5 /\ IsNaN(ToNumber(v)) /\ DateOk(v)

\* numericParsed and dateParsed after rawValues.forEach
NumbersParsed(rawValues) ==
  LET kept == SelectSeq(rawValues, IsNumberValue)
  IN [k \in 1..Len(kept) |-> ToNumber(kept[k])]

DatesParsed(rawValues) ==
  LET kept == SelectSeq(rawValues, IsDateValue)
  IN [k \in 1..Len(kept) |-> DateParse(kept[k])]

\* Math.min(...numbers), Math.max(...numbers) of numbers that are not NaN
NumMin(numbers) ==
  CHOOSE least \in Range(numbers) : \A other \in Range(numbers) : NumLe(least, other)

NumMax(numbers) ==
  CHOOSE most \in Range(numbers) : \A other \in Range(numbers) : NumLe(other, most)

\* numbers.reduce((a, b) => a + b, 0)
RECURSIVE NumSum(_)
NumSum(numbers) ==
  IF numbers = <<>> THEN Zero
  ELSE NumAdd(NumSum(SubSeq(numbers, 1, Len(numbers) - 1)),
              numbers[Len(numbers)])

\* numbers.sort((a, b) => a - b)
RECURSIVE NumInsert(_, _)
NumInsert(sorted, number) ==
  IF sorted = <<>> \/ NumLe(sorted[Len(sorted)], number)
    THEN Append(sorted, number)
    ELSE Append(NumInsert(SubSeq(sorted, 1, Len(sorted) - 1), number),
                sorted[Len(sorted)])

RECURSIVE NumSortFrom(_, _, _)
NumSortFrom(numbers, k, acc) ==
  IF k > Len(numbers) THEN acc
  ELSE NumSortFrom(numbers, k + 1, NumInsert(acc, numbers[k]))

NumSort(numbers) == NumSortFrom(numbers, 1, <<>>)

\* Bin i (zero-based): rangeStart = min + i * step, rangeEnd = min +
\* (i + 1) * step, each product and each sum rounded; the bin counts the n
\* with n >= rangeStart and n < rangeEnd, n <= rangeEnd in the last bin
RangeBound(i, min, step) == NumAdd(min, NumTimes(i, step))

BinOver(numbers, last, rangeStart, rangeEnd) ==
  [name  |-> NumberToFixed1(rangeStart),
   value |-> Cardinality({k \in 1..Len(numbers) :
                            /\ NumLe(rangeStart, numbers[k])
                            /\ IF last THEN NumLe(numbers[k], rangeEnd)
                               ELSE NumLt(numbers[k], rangeEnd)})]

NumberBin(numbers, i, min, step) ==
  BinOver(numbers, i = BinCount - 1,
          RangeBound(i, min, step), RangeBound(i + 1, min, step))

\* ten bins if step > 0, else one
HistogramBy(numbers, min, step) ==
  IF NumLt(Zero, step)
    THEN [b \in 1..BinCount |-> NumberBin(numbers, b - 1, min, step)]
    ELSE <<[name |-> NumberToString(min), value |-> Len(numbers)]>>

\* step = (max - min) / binCount
NumberHistogram(numbers, min, max) ==
  HistogramBy(numbers, min, NumOver(NumSub(max, min), BinCount))

StatsOver(numbers, min, max) ==
  [min       |-> min,
   max       |-> max,
   mean      |-> NumOver(NumSum(numbers), Len(numbers)),
   histogram |-> NumberHistogram(numbers, min, max),
   quantiles |-> Quantiles(NumSort(numbers))]

NumberStats(numbers) == StatsOver(numbers, NumMin(numbers), NumMax(numbers))

\* type and stats by isNumeric and isDate
TypedColumn(header, rawValues, numbers, dates, limit, isNumeric, isDate) ==
  [name    |-> header,
   type    |-> ColumnType(isNumeric, isDate),
   missing |-> limit - Len(rawValues),
   unique  |-> Cardinality(Range(rawValues)),
   example |-> IF rawValues # <<>> THEN rawValues[1] ELSE Null,
   stats   |-> IF isNumeric THEN NumberStats(numbers)
               ELSE IF isDate THEN DateStats(dates)
               ELSE StringStats(rawValues)]

ColumnOver(header, rawValues, numbers, dates, limit, isNumeric) ==
  TypedColumn(header, rawValues, numbers, dates, limit, isNumeric,
              IsDateColumn(isNumeric, Len(dates), Len(rawValues)))

\* The callback of headers.map for one column
DescribeColumn(header, rawValues, numbers, limit) ==
  ColumnOver(header, rawValues, numbers, DatesParsed(rawValues), limit,
             IsNumericColumn(Len(numbers), Len(rawValues)))

----------------------------------------------------------------------------
(* Input files *)

MaxSegments  == 3
MaxHeaderLen == 4
MaxTokenLen  == 5
MaxRagged    == 4
MaxValues    == 6
MaxQuoted    == 4

SeqsUpTo(S, n) == UNION {[1..k -> S] : k \in 0..n}

HeaderAC  == <<"a", Comma, "c">>
RowGood   == <<"1", Comma, "y">>
RowShort  == <<"2">>
RowLong   == <<"3", Comma, "y", Comma, "a">>
RowGap    == <<Comma, "y">>
RowEmpty  == <<Quote, Quote, Comma, Quote, Space, Quote>>
RowRepl   == <<Repl, Comma, "1">>
RowCR     == <<"7", Comma, "a", CR>>
RowOne    == <<"1">>
RowInner  == <<"x", Quote, "y", Comma, "1">>
IsoDate   == <<"2", "0", "2", "0", Dash, "0", "1", Dash, "0", "1">>
PlusYear  == <<Plus, "0", "0", "2", "0", "2", "0">>
LongWord  == <<"S", "m", "i", "t", "h", "y">>
QuotedRow ==
  <<Quote, "S", "m", "i", "t", "h", Comma, Space, "J", "o", "h", "n", Quote,
    Comma, "3", "4">>

\* Whole texts of a few segments: blank lines, "\r\n" endings, U+FFFD
GeneralTexts ==
  SeqsUpTo({HeaderAC, RowGood, RowShort, <<>>, <<Space>>, RowRepl, RowCR},
           MaxSegments)

\* Any header over the candidate delimiters, followed by one data row
HeaderTexts ==
  {<<h, RowOne>> : h \in SeqsUpTo({Comma, Semi, Tab, Pipe, "a"}, MaxHeaderLen)}

\* Any first line over a delimiter, the quote and a letter
TokenTexts ==
  {<<l, RowOne>> : l \in SeqsUpTo({Comma, Semi, Quote, "a"}, MaxTokenLen)}
    \cup {<<QuotedRow, QuotedRow>>}

\* A two-column header and rows with one, two or three fields
RaggedTexts ==
  {<<HeaderAC>> \o r :
     r \in SeqsUpTo({RowGood, RowShort, RowLong, RowGap, RowEmpty}, MaxRagged)}

\* One column of numbers (one of them also an ISO expanded year), dates and
\* words
ValueTexts ==
  {<<<<"a">>>> \o r :
     r \in SeqsUpTo({PlusYear, <<"1">>, IsoDate, LongWord}, MaxValues)}

\* Rows with a quote inside a field, with an empty field and with a field
\* too few
QuoteTexts ==
  {<<HeaderAC>> \o r : r \in SeqsUpTo({RowInner, RowGap, RowShort}, MaxQuoted)}

\* The numbers 10, 9, ..., 1 in one column
TenValues ==
  <<<<"a">>, <<"1", "0">>, <<"9">>, <<"8">>, <<"7">>, <<"6">>, <<"5">>,
    <<"4">>, <<"3">>, <<"2">>, <<"1">>>>

\* n data rows under HeaderAC, the rows at the positions in short having one
\* field and the others two
RowWords == <<"y", Comma, "a">>
RowWord  == <<"c">>

LargeText(n, short) ==
  <<HeaderAC>> \o [i \in 1..n |-> IF i \in short THEN RowWord ELSE RowWords]

\* One column of categories: the words w1 .. wn once each, followed by up to
\* MaxRepeats more values: the last word again, a name of 16 characters, a
\* name of 15 characters, or '__proto__'
Word(i) == <<"w">> \o NatToString(i)

LongName  == <<"S", "m", "i", "t", "h", "y">> \o <<"-">> \o
             <<"S", "m", "i", "t", "h", "y">> \o <<"-", "J", "r">>
LimitName == SubSeq(LongName, 1, NameLimit)

MaxCategories == 21
MaxRepeats    == 2

CategoryText(n, more) == <<<<"a">>>> \o [i \in 1..n |-> Word(i)] \o more

CategoryTexts ==
  {CategoryText(n, more) :
     n \in (MaxCategories - 2)..MaxCategories,
     more \in UNION {SeqsUpTo({Word(n), LongName, LimitName, ProtoKey},
                               MaxRepeats) : n \in {MaxCategories}}}

LargeTexts ==
  {LargeText(99, 1..20), LargeText(99, 1..21), LargeText(100, 80..100),
   LargeText(2001, {2001}), LargeText(2001, {5}), LargeText(2000, {1})}

\* Two columns of the same name with different values
HeaderAA == <<"a", Comma, "a">>
RowTwo   == <<"1", Comma, "2">>

Texts ==
  GeneralTexts \cup HeaderTexts \cup TokenTexts \cup RaggedTexts
    \cup ValueTexts \cup QuoteTexts \cup {TenValues} \cup CategoryTexts
    \cup LargeTexts \cup {<<HeaderAA, RowTwo>>}

Files ==
  {[readable |-> TRUE, name |-> "train.csv", text |-> t] : t \in Texts}
    \cup {[readable |-> FALSE, name |-> "train.csv", text |-> <<>>]}

----------------------------------------------------------------------------
(* runMultiAgentAnalysis: values *)

MAX_ITERATIONS == 3
ApprovalScore  == 90

\* The scores a review may carry
Scores == {0, 84, 85, 89, 90, 100}

\* What an awaited generateContent call can come to: the promise rejects, the
\* response has no text, the text is no JSON, or the text is JSON
Failures == {[kind |-> "rejected"], [kind |-> "empty"], [kind |-> "malformed"]}

\* A plan is usable when it has the fields the Builder's context reads
PlannerResponses ==
  Failures \cup {[kind |-> "json", usable |-> u] : u \in BOOLEAN}

BuilderResponses == Failures \cup {[kind |-> "json"]}

\* JSON.parse of the Critic's text: a review <<r>>, or null
NoReview == <<>>

Reviews == {[approved |-> a, score |-> sc] : a \in BOOLEAN, sc \in Scores}

CriticResponses ==
  Failures \cup {[kind |-> "json", review |-> <<r>>] : r \in Reviews}
    \cup {[kind |-> "json", review |-> NoReview]}

\* Calls of handleFilesSelect in one session, and CSV files in one upload
MaxRuns == 1
MaxCsv  == 2

RunIds == 1..MaxRuns

\* null; a value v that may be null is held as <<v>>
NoValue == <<>>

\* No call of handleFilesSelect with this number has been made
NotStarted ==
  [pc |-> "none", files |-> <<>>, parsed |-> 0, primarySummary |-> NoValue,
   largestSize |-> 0, history |-> <<>>, iteration |-> 0]

\* The component as first rendered, with nothing stored
AppIdle ==
  /\ appState = "IDLE"
  /\ datasetSummary = NoValue
  /\ analysisResult = NoValue
  /\ errorMsg = NoValue
  /\ agentStage = "PLANNING"
  /\ agentLogs = <<>>
  /\ history = <<>>
  /\ isHistoryOpen = FALSE
  /\ storage = NoValue
  /\ now = 0
  /\ runs = [r \in RunIds |-> NotStarted]

\* No run of the analysis
AgentsIdle ==
  /\ apiKey = FALSE
  /\ apc = "idle"
  /\ plan = <<>>
  /\ iteration = 0
  /\ currentNotebookCells = 0
  /\ currentReview = NoReview
  /\ iterationHistory = <<>>
  /\ calls = <<>>
  /\ progress = <<>>
  /\ outcome = <<>>

----------------------------------------------------------------------------
(* parseCSV *)

\* No column is being described
ColumnIdle ==
  /\ sampled = <<>>
  /\ cpc = "idle"
  /\ parsedNumbers = <<>>
  /\ described = <<>>

\* The locals of the load handler before it runs, and the pending promise
ParseStart ==
  /\ pc = "reading"
  /\ lines = <<>>
  /\ bestDelimiter = Comma
  /\ headers = <<>>
  /\ validationLimit = 0
  /\ malformedCount = 0
  /\ preview = <<>>
  /\ sampleLimit = 0
  /\ columnValues = <<>>
  /\ columns = <<>>
  /\ thrown = <<>>
  /\ settled = "pending"
  /\ result = <<>>
  /\ reason = <<>>

Init ==
  /\ file \in Files
  /\ ParseStart
  /\ download = <<>>
  /\ AgentsIdle
  /\ ColumnIdle
  /\ AppIdle

\* throw e inside the try block: control passes to the catch clause
Throw(e) == thrown' = <<e>> /\ pc' = "catch"

\* reader.onload fires with the decoded text
ReaderLoad ==
  /\ pc = "reading"
  /\ UNCHANGED restVars
  /\ file.readable
  /\ pc' = "encoding"
  /\ UNCHANGED <<file, lines, bestDelimiter, headers, validationLimit,
                 malformedCount, preview, sampleLimit, columnValues, columns,
                 thrown, settled, result, reason>>

\* reader.onerror = () => reject(reader.error)
ReaderError ==
  /\ pc = "reading"
  /\ UNCHANGED restVars
  /\ ~file.readable
  /\ settled' = "rejected"
  /\ reason' = <<ReadError>>
  /\ pc' = "done"
  /\ UNCHANGED <<file, lines, bestDelimiter, headers, validationLimit,
                 malformedCount, preview, sampleLimit, columnValues, columns,
                 thrown, result>>

CheckEncoding ==
  /\ pc = "encoding"
  /\ UNCHANGED restVars
  /\ IF HasReplacementChar(file.text)
       THEN Throw(EncodingError)
       ELSE pc' = "lines" /\ UNCHANGED thrown
  /\ UNCHANGED <<file, lines, bestDelimiter, headers, validationLimit,
                 malformedCount, preview, sampleLimit, columnValues, columns,
                 settled, result, reason>>

ReadLines ==
  /\ pc = "lines"
  /\ UNCHANGED restVars
  /\ LET ls == SplitLines(file.text)
     IN /\ lines' = ls
        /\ IF Len(ls) < 2
             THEN Throw(InsufficientError)
             ELSE pc' = "delimiter" /\ UNCHANGED thrown
  /\ UNCHANGED <<file, bestDelimiter, headers, validationLimit,
                 malformedCount, preview, sampleLimit, columnValues, columns,
                 settled, result, reason>>

DetectBestDelimiter ==
  /\ pc = "delimiter"
  /\ UNCHANGED restVars
  /\ bestDelimiter' = DetectDelimiter(lines[1])
  /\ pc' = "headers"
  /\ UNCHANGED <<file, lines, headers, validationLimit, malformedCount,
                 preview, sampleLimit, columnValues, columns, thrown, settled,
                 result, reason>>

ReadHeaders ==
  /\ pc = "headers"
  /\ UNCHANGED restVars
  /\ LET hs == splitLine(lines[1], bestDelimiter)
     IN /\ headers' = hs
        /\ IF Len(hs) < 1
             THEN Throw(ColumnError)
             ELSE pc' = "validate" /\ UNCHANGED thrown
  /\ UNCHANGED <<file, lines, bestDelimiter, validationLimit, malformedCount,
                 preview, sampleLimit, columnValues, columns, settled, result,
                 reason>>

ValidateStructure ==
  /\ pc = "validate"
  /\ UNCHANGED restVars
  /\ LET limit     == Min(Len(lines), ValidationRows)
         malformed == CountMalformed(lines, bestDelimiter, limit, Len(headers))
     IN /\ validationLimit' = limit
        /\ malformedCount' = malformed
        /\ IF TooManyMalformed(malformed, limit)
             THEN Throw(IntegrityError(malformed, limit, Len(headers)))
             ELSE pc' = "preview" /\ UNCHANGED thrown
  /\ UNCHANGED <<file, lines, bestDelimiter, headers, preview, sampleLimit,
                 columnValues, columns, settled, result, reason>>

BuildPreview ==
  /\ pc = "preview"
  /\ UNCHANGED restVars
  /\ preview' = BuildPreviewRows(lines, bestDelimiter, headers)
  /\ pc' = "sample"
  /\ UNCHANGED <<file, lines, bestDelimiter, headers, validationLimit,
                 malformedCount, sampleLimit, columnValues, columns, thrown,
                 settled, result, reason>>

\* Variant: the sample is not capped
CollectSampleAllRows ==
  /\ pc = "sample"
  /\ UNCHANGED restVars
  /\ LET limit == Len(dataLines)
     IN /\ sampleLimit' = limit
        /\ columnValues' = CollectValues(dataLines, bestDelimiter, headers, limit)
  /\ pc' = "columns"
  /\ UNCHANGED <<file, lines, bestDelimiter, headers, validationLimit,
                 malformedCount, preview, columns, thrown, settled, result,
                 reason>>

CollectSample ==
  /\ pc = "sample"
  /\ UNCHANGED restVars
  /\ LET limit == Min(Len(dataLines), SampleRows)
     IN /\ sampleLimit' = limit
        /\ columnValues' = CollectValues(dataLines, bestDelimiter, headers, limit)
  /\ pc' = "columns"
  /\ UNCHANGED <<file, lines, bestDelimiter, headers, validationLimit,
                 malformedCount, preview, columns, thrown, settled, result,
                 reason>>

\* Variant: missing is counted against all data rows
AnalyzeColumnsAllRows ==
  /\ pc = "columns"
  /\ UNCHANGED restVars
  /\ columns' = BuildColumns(headers, columnValues, Len(dataLines))
  /\ pc' = "resolve"
  /\ UNCHANGED <<file, lines, bestDelimiter, headers, validationLimit,
                 malformedCount, preview, sampleLimit, columnValues, thrown,
                 settled, result, reason>>

AnalyzeColumns ==
  /\ pc = "columns"
  /\ UNCHANGED restVars
  /\ columns' = BuildColumns(headers, columnValues, sampleLimit)
  /\ pc' = "resolve"
  /\ UNCHANGED <<file, lines, bestDelimiter, headers, validationLimit,
                 malformedCount, preview, sampleLimit, columnValues, thrown,
                 settled, result, reason>>

Summary ==
  [rowCount |-> Len(dataLines), columns |-> columns, preview |-> preview,
   fileName |-> file.name]

\* resolve({...})
Resolve ==
  /\ pc = "resolve"
  /\ UNCHANGED restVars
  /\ settled' = "fulfilled"
  /\ result' = <<Summary>>
  /\ pc' = "done"
  /\ UNCHANGED <<file, lines, bestDelimiter, headers, validationLimit,
                 malformedCount, preview, sampleLimit, columnValues, columns,
                 thrown, reason>>

\* Variant: the catch clause swallows the error and resolves with an empty
\* summary
CatchAndResolve ==
  /\ pc = "catch"
  /\ UNCHANGED restVars
  /\ settled' = "fulfilled"
  /\ result' = <<[rowCount |-> 0, columns |-> <<>>, preview |-> <<>>,
                  fileName |-> file.name]>>
  /\ pc' = "done"
  /\ UNCHANGED <<file, lines, bestDelimiter, headers, validationLimit,
                 malformedCount, preview, sampleLimit, columnValues, columns,
                 thrown, reason>>

\* catch (e) { reject(e) }
Catch ==
  /\ pc = "catch"
  /\ UNCHANGED restVars
  /\ settled' = "rejected"
  /\ reason' = thrown
  /\ pc' = "done"
  /\ UNCHANGED <<file, lines, bestDelimiter, headers, validationLimit,
                 malformedCount, preview, sampleLimit, columnValues, columns,
                 thrown, result>>

Fulfilled == settled = "fulfilled"
Rejected  == settled = "rejected"
Done      == pc = "done"

----------------------------------------------------------------------------
(* Dashboard: Export CSV *)

\* parts.join(sep)
RECURSIVE Join(_, _)
Join(parts, sep) ==
  IF parts = <<>> THEN <<>>
  ELSE IF Len(parts) = 1 THEN parts[1]
  ELSE parts[1] \o <<sep>> \o Join(Tail(parts), sep)

\* Variant: the quotes of a value are left as they are
KeepQuotes(v) == v

\* v.replace(/"/g, '""')
RECURSIVE EscapeQuotes(_)
EscapeQuotes(v) ==
  IF v = <<>> THEN <<>>
  ELSE (IF Head(v) = Quote THEN <<Quote, Quote>> ELSE <<Head(v)>>)
         \o EscapeQuotes(Tail(v))

\* val === null || val === undefined ? '' : String(val), for a string val
StringOf(val) == IF val = Null \/ val = Undefined THEN <<>> ELSE val

CsvField(val) == <<Quote>> \o EscapeQuotes(StringOf(val)) \o <<Quote>>

\* The lines of the exported text, which csvRows.join('\n') puts together
CsvRows(summary) ==
  LET names == [i \in 1..Len(summary.columns) |-> summary.columns[i].name]
      line(row) == Join([i \in 1..Len(names) |-> CsvField(row[names[i]])], Comma)
  IN <<Join(names, Comma)>>
       \o [k \in 1..Len(summary.preview) |-> line(summary.preview[k])]

\* handleDownloadCSV, on the summary that parseCSV delivered
DownloadCSV ==
  /\ Fulfilled
  /\ IF Len(result[1].preview) = 0
       THEN UNCHANGED download
       ELSE download' = <<CsvRows(result[1])>>
  /\ UNCHANGED <<parseVars, agentVars, columnVars, appVars>>

----------------------------------------------------------------------------
(* runMultiAgentAnalysis *)

\* A throw, or a rejected await, ends the call: it has no try block
Fail(message) ==
  /\ outcome' = <<[kind |-> "error", message |-> message]>>
  /\ apc' = "threw"

\* What a failed response throws
FailureOf(agent, resp) ==
  IF resp.kind = "rejected" THEN "request failed"
  ELSE IF resp.kind = "malformed" THEN "SyntaxError"
  ELSE agent

\* currentReview?.approved and currentReview?.score || 0
ApprovedOf(review) == review # NoReview /\ review[1].approved
ScoreOf(review) == IF review = NoReview THEN 0 ELSE review[1].score

\* Variant: one more pass
LoopGoesOnOnceMore(i) == i <= MAX_ITERATIONS

\* while (iteration < MAX_ITERATIONS)
LoopGoesOn(i) == i < MAX_ITERATIONS

\* currentReview?.approved || (currentReview?.score || 0) >= 90
Accepted(review) == ApprovedOf(review) \/ ScoreOf(review) >= ApprovalScore

AgentName(i) == IF i > 0 THEN "Builder (Revision)" ELSE "Builder"

\* The return statement
Return(i, review, logged, shown) ==
  /\ outcome' = <<[kind |-> "result",
                   notebookCells |-> currentNotebookCells,
                   criticReview |-> review,
                   iterationHistory |-> logged,
                   iterations |-> i + 1]>>
  /\ apc' = "returned"
  /\ progress' = shown
  /\ UNCHANGED calls

\* The top of the loop body up to the Builder request; the first pass reads
\* the plan's fields, which throws when they are not there
BeginPass(i, shown) ==
  IF i = 0 /\ ~plan[1].usable
    THEN /\ Fail("TypeError")
         /\ progress' = Append(shown, AgentName(i))
         /\ UNCHANGED calls
    ELSE /\ calls' = Append(calls, "Builder")
         /\ progress' = Append(shown, AgentName(i))
         /\ apc' = "awaitBuilder"
         /\ UNCHANGED outcome

StartAnalysis ==
  /\ apc = "start"
  /\ IF ~apiKey
       THEN Fail("API Key not found in environment") /\ UNCHANGED <<calls, progress>>
       ELSE /\ progress' = Append(progress, "Planner")
            /\ calls' = Append(calls, "Planner")
            /\ apc' = "awaitPlanner"
            /\ UNCHANGED outcome
  /\ UNCHANGED <<apiKey, plan, iteration, currentNotebookCells, currentReview,
                 iterationHistory>>
  /\ UNCHANGED <<parseVars, download, columnVars, appVars>>

PlannerResponds ==
  /\ apc = "awaitPlanner"
  /\ \E resp \in PlannerResponses :
       IF resp.kind # "json"
         THEN Fail(FailureOf("Planner Agent failed to generate a response.", resp))
              /\ UNCHANGED <<plan, progress>>
         ELSE /\ plan' = <<resp>>
              /\ progress' = Append(progress, "Planner")
              /\ apc' = "pausePlan"
              /\ UNCHANGED outcome
  /\ UNCHANGED <<apiKey, iteration, currentNotebookCells, currentReview,
                 iterationHistory, calls>>
  /\ UNCHANGED <<parseVars, download, columnVars, appVars>>

\* The pause after the plan is over: the loop starts with iteration = 0
EnterLoop ==
  /\ apc = "pausePlan"
  /\ iteration' = 0
  /\ currentNotebookCells' = 0
  /\ currentReview' = NoReview
  /\ iterationHistory' = <<>>
  /\ IF LoopGoesOn(0)
       THEN BeginPass(0, progress)
       ELSE Return(0, NoReview, <<>>, progress)
  /\ UNCHANGED <<apiKey, plan>>
  /\ UNCHANGED <<parseVars, download, columnVars, appVars>>

\* The notebook of a pass is named by the number of the pass
BuilderResponds ==
  /\ apc = "awaitBuilder"
  /\ \E resp \in BuilderResponses :
       IF resp.kind # "json"
         THEN Fail(FailureOf("Builder Agent failed.", resp))
              /\ UNCHANGED <<currentNotebookCells, progress>>
         ELSE /\ currentNotebookCells' = iteration + 1
              /\ progress' = Append(progress, AgentName(iteration))
              /\ apc' = "pauseBuild"
              /\ UNCHANGED outcome
  /\ UNCHANGED <<apiKey, plan, iteration, currentReview, iterationHistory,
                 calls>>
  /\ UNCHANGED <<parseVars, download, columnVars, appVars>>

\* The pause after the build is over: the code goes to the Critic
CallCritic ==
  /\ apc = "pauseBuild"
  /\ progress' = Append(progress, "Critic")
  /\ calls' = Append(calls, "Critic")
  /\ apc' = "awaitCritic"
  /\ UNCHANGED <<apiKey, plan, iteration, currentNotebookCells, currentReview,
                 iterationHistory, outcome>>
  /\ UNCHANGED <<parseVars, download, columnVars, appVars>>

CriticResponds ==
  /\ apc = "awaitCritic"
  /\ \E resp \in CriticResponses :
       IF resp.kind # "json"
         THEN /\ Fail(FailureOf("Critic Agent failed.", resp))
              /\ UNCHANGED <<iteration, currentReview, iterationHistory,
                             calls, progress>>
         ELSE LET review  == resp.review
                  logged == Append(iterationHistory,
                                    [iteration |-> iteration + 1,
                                     score |-> ScoreOf(review)])
                  shown   == Append(progress, "Critic")
              IN /\ currentReview' = review
                 /\ iterationHistory' = logged
                 /\ IF Accepted(review)
                      THEN /\ iteration' = iteration
                           /\ Return(iteration, review, logged,
                                     Append(shown, "System"))
                      ELSE LET told == IF iteration < MAX_ITERATIONS - 1
                                         THEN Append(shown, "System")
                                         ELSE shown
                           IN /\ iteration' = iteration + 1
                              /\ IF LoopGoesOn(iteration + 1)
                                   THEN BeginPass(iteration + 1, told)
                                   ELSE Return(iteration + 1, review, logged,
                                               told)
  /\ UNCHANGED <<apiKey, plan, currentNotebookCells>>
  /\ UNCHANGED <<parseVars, download, columnVars, appVars>>

Next ==
  \/ ReaderLoad
  \/ ReaderError
  \/ CheckEncoding
  \/ ReadLines
  \/ DetectBestDelimiter
  \/ ReadHeaders
  \/ ValidateStructure
  \/ BuildPreview
  \/ CollectSample
  \/ AnalyzeColumns
  \/ Resolve
  \/ Catch
  \/ DownloadCSV

Spec == Init /\ [][Next]_vars

\* A call of runMultiAgentAnalysis, with or without an API key in the
\* environment; no file is being parsed
NoFile == [readable |-> FALSE, name |-> "train.csv", text |-> <<>>]

InitAgents ==
  /\ file = NoFile
  /\ ParseStart
  /\ download = <<>>
  /\ ColumnIdle
  /\ apiKey \in BOOLEAN
  /\ apc = "start"
  /\ plan = <<>>
  /\ iteration = 0
  /\ currentNotebookCells = 0
  /\ currentReview = NoReview
  /\ iterationHistory = <<>>
  /\ calls = <<>>
  /\ progress = <<>>
  /\ outcome = <<>>
  /\ AppIdle

NextAgents ==
  \/ StartAnalysis
  \/ PlannerResponds
  \/ EnterLoop
  \/ BuilderResponds
  \/ CallCritic
  \/ CriticResponds

\* Every awaited call and pause comes back
AgentSpec == InitAgents /\ [][NextAgents]_vars /\ WF_vars(NextAgents)

\* The callback of headers.map on a column of up to MaxCells sampled values:
\* decimal numbers with and without a fraction, the least positive Number,
\* Infinity and a word
MaxCells == 3

Tiny == <<"5", "e", Dash, "3", "2", "4">>

DecimalTokens ==
  {<<"0">>, <<"0", ".", "9">>, <<"1">>, <<"1", ".", "7">>, Tiny,
   InfinityWord, <<"x">>}

InitColumn ==
  /\ file = NoFile
  /\ ParseStart
  /\ download = <<>>
  /\ AgentsIdle
  /\ sampled \in SeqsUpTo(DecimalTokens, MaxCells)
  /\ cpc = "values"
  /\ parsedNumbers = <<>>
  /\ described = <<>>
  /\ AppIdle

\* rawValues.forEach: the values that are numbers
ParseNumbers ==
  /\ cpc = "values"
  /\ parsedNumbers' = NumbersParsed(sampled)
  /\ cpc' = "type"
  /\ UNCHANGED <<sampled, described>>
  /\ UNCHANGED <<parseVars, download, agentVars, appVars>>

\* The type, the statistics and the ColumnInfo returned
Describe ==
  /\ cpc = "type"
  /\ described' =
       <<DescribeColumn(<<"a">>, sampled, parsedNumbers, Len(sampled))>>
  /\ cpc' = "done"
  /\ UNCHANGED <<sampled, parsedNumbers>>
  /\ UNCHANGED <<parseVars, download, agentVars, appVars>>

NextColumn ==
  \/ ParseNumbers
  \/ Describe

ColumnSpec == InitColumn /\ [][NextColumn]_vars

----------------------------------------------------------------------------
(* Properties *)

ColumnTypes == {"numeric", "string", "date"}

\* The control points of a run that has not ended; each has a step
Labels ==
  {"reading", "encoding", "lines", "delimiter", "headers", "validate",
   "preview", "sample", "columns", "resolve", "catch"}

\* Every field of a delivered summary is there: the row count, one column
\* record per header position, the preview rows and the file name.
Populated(p) ==
  /\ p.rowCount = Len(lines) - 1
  /\ p.rowCount >= 1
  /\ Len(p.columns) = Len(headers)
  /\ Len(p.columns) >= 1
  /\ \A i \in 1..Len(p.columns) :
       /\ p.columns[i].name = headers[i]
       /\ p.columns[i].type \in ColumnTypes
       /\ p.columns[i].missing \in 0..SampleRows
  /\ Len(p.preview) = Min(p.rowCount, PreviewRows)
  /\ \A k \in 1..Len(p.preview) : DOMAIN p.preview[k] = Range(headers)
  /\ p.fileName = file.name

OutcomeShape ==
  /\ settled = "pending" => result = <<>> /\ reason = <<>>
  /\ Fulfilled => /\ reason = <<>>
                  /\ thrown = <<>>
                  /\ Len(result) = 1
                  /\ Populated(result[1])
  /\ Rejected => result = <<>> /\ Len(reason) = 1
  /\ thrown # <<>> => result = <<>> /\ ~Fulfilled
  /\ Done <=> settled # "pending"
  /\ pc \in Labels \cup {"done"}

SettledOnce ==
  settled # "pending" => UNCHANGED <<settled, result, reason>>

\* The position of a control point in the handler
Rank(label) ==
  CASE label = "reading"   -> 0
    [] label = "encoding"  -> 1
    [] label = "lines"     -> 2
    [] label = "delimiter" -> 3
    [] label = "headers"   -> 4
    [] label = "validate"  -> 5
    [] label = "preview"   -> 6
    [] label = "sample"    -> 7
    [] label = "columns"   -> 8
    [] label = "resolve"   -> 9
    [] label = "catch"     -> 10
    [] label = "done"      -> 11

\* Every step of parseCSV moves to a later control point
Advances == pc # "done" => Rank(pc') > Rank(pc)

\* C1: every run of parseCSV ends, and ends in exactly one outcome: a fully
\* populated summary, or one error and no summary; a run that raised an error
\* never delivers a summary, an outcome once delivered never changes, and
\* every step moves the run forward.
C1_ExactlyOneOutcome == []OutcomeShape /\ [][SettledOnce /\ Advances]_vars

C1_Witness ==
  /\ Done
  /\ Fulfilled
  /\ Len(result[1].columns) = 2
  /\ result[1].rowCount = 3

CharsOf(text) == UNION {Range(text[k]) : k \in 1..Len(text)}

\* C2: a text that contains U+FFFD is rejected with the encoding error and
\* yields no summary, whatever its lines look like.
C2_EncodingErrorFirst ==
  (file.readable /\ Repl \in CharsOf(file.text)) =>
    /\ pc \in {"reading", "encoding", "catch", "done"}
    /\ lines = <<>>
    /\ Done => Rejected /\ reason = <<EncodingError>> /\ result = <<>>

\* The input has U+FFFD and also fewer than 2 non-blank lines
C2_Witness ==
  /\ Done
  /\ reason = <<EncodingError>>
  /\ file.text = <<RowRepl, <<Space>>>>

\* The lines of the text that hold a character other than white space
NonBlankLineCount(text) ==
  Cardinality({k \in 1..Len(text) :
                 \E j \in 1..Len(text[k]) : text[k][j] \notin WhiteSpace})

IsIntegrityError(r) == Len(r) = 1 /\ r[1].kind = "Integrity"

\* The run got as far as counting malformed rows
Validated == validationLimit > 0

\* The data rows the validation loop examined
RowsExamined == validationLimit - 1

\* C3 (as claimed): the file is rejected with the integrity error exactly
\* when the malformed rows are more than 20% of the data rows that were
\* examined.
C3_RejectedAboveFifthOfSampledRows ==
  (Done /\ Validated) =>
    (IsIntegrityError(reason) <=> 5 * malformedCount > RowsExamined)

\* C4 (as claimed): fewer than 2 non-blank lines give the insufficient-data
\* error, and 2 or more never do.
C4_InsufficientDataAsClaimed ==
  (Done /\ file.readable) =>
    (NonBlankLineCount(file.text) < 2 <=> reason = <<InsufficientError>>)

\* C4 (amended): a text without U+FFFD and with fewer than 2 non-blank lines
\* is rejected with the insufficient-data error; a text with 2 or more
\* non-blank lines is never rejected with it.
C4_InsufficientData ==
  (Done /\ file.readable) =>
    /\ (Repl \notin CharsOf(file.text) /\ NonBlankLineCount(file.text) < 2)
         => Rejected /\ reason = <<InsufficientError>> /\ result = <<>>
    /\ NonBlankLineCount(file.text) >= 2 => reason # <<InsufficientError>>

\* One non-blank line among blank ones
C4_Witness ==
  /\ Done
  /\ reason = <<InsufficientError>>
  /\ Len(file.text) = 3
  /\ NonBlankLineCount(file.text) = 1

Candidates == Range(possibleDelimiters)

\* The delimiter has been chosen
Detected ==
  \/ pc \in {"headers", "validate", "preview", "sample", "columns", "resolve"}
  \/ pc \in {"catch", "done"} /\ headers # <<>>

HighestCount(h) ==
  CHOOSE n \in {CountChar(h, d) : d \in Candidates} :
    \A d \in Candidates : CountChar(h, d) <= n

\* C5: the chosen delimiter is a candidate whose occurrence count in the
\* first non-blank line is the highest of the four; it is ',' when no
\* candidate occurs.
C5_DelimiterHasHighestCount ==
  Detected =>
    /\ bestDelimiter \in Candidates
    /\ CountChar(lines[1], bestDelimiter) = HighestCount(lines[1])
    /\ HighestCount(lines[1]) = 0 => bestDelimiter = Comma

\* '|' wins over a ',' that also occurs
C5_Witness ==
  /\ Detected
  /\ bestDelimiter = Pipe
  /\ CountChar(lines[1], Comma) = 1
  /\ CountChar(lines[1], Pipe) = 2

TiedCandidates(h) ==
  {d \in Candidates : CountChar(h, d) = HighestCount(h)}

\* C6 (as claimed): when two or more candidates tie for the highest count,
\* the delimiter is ','.
C6_TieGivesCommaAsClaimed ==
  (Detected /\ Cardinality(TiedCandidates(lines[1])) >= 2) =>
    bestDelimiter = Comma

FirstTied(h) ==
  possibleDelimiters[
    CHOOSE k \in 1..Len(possibleDelimiters) :
      /\ possibleDelimiters[k] \in TiedCandidates(h)
      /\ \A j \in 1..(k - 1) : possibleDelimiters[j] \notin TiedCandidates(h)]

\* C6 (amended): when two or more candidates tie for the highest count, the
\* delimiter is the tied candidate that comes first in the order ',', ';',
\* tab, '|'; so it is ',' when ',' is among the tied ones or no candidate
\* occurs at all.
C6_TieGivesFirstCandidate ==
  (Detected /\ Cardinality(TiedCandidates(lines[1])) >= 2) =>
    /\ bestDelimiter = FirstTied(lines[1])
    /\ Comma \in TiedCandidates(lines[1]) => bestDelimiter = Comma

\* ';' and '|' both occur twice and ',' not at all
C6_Witness ==
  /\ Detected
  /\ CountChar(lines[1], Semi) = 2
  /\ CountChar(lines[1], Pipe) = 2
  /\ CountChar(lines[1], Comma) = 0
  /\ CountChar(lines[1], Tab) = 0
  /\ bestDelimiter = Semi

Balanced(line) == CountChar(line, Quote) % 2 = 0

\* Position i lies between an opening quote and its closing quote, the quotes
\* of the line being paired from the left
InsideQuotes(line, i) == CountChar(SubSeq(line, 1, i - 1), Quote) % 2 = 1

DelimitersOutside(line, d) ==
  {i \in 1..Len(line) : line[i] = d /\ ~InsideQuotes(line, i)}

DelimitersInside(line, d) ==
  {i \in 1..Len(line) : line[i] = d /\ InsideQuotes(line, i)}

\* The delimiters with an even number of quotes to their right
DelimitersBeforeEven(line, d) ==
  {i \in 1..Len(line) :
     line[i] = d /\ CountChar(SubSeq(line, i + 1, Len(line)), Quote) % 2 = 0}

DelimitersKept(fields, d) ==
  UNION {{<<k, j>> : j \in {m \in 1..Len(fields[k]) : fields[k][m] = d}} :
           k \in 1..Len(fields)}

SmithJohn == <<"S", "m", "i", "t", "h", Comma, Space, "J", "o", "h", "n">>

\* C7: a delimiter separates exactly when the number of quotes to its right
\* is even; so a line with balanced quotes is split at exactly the delimiters
\* that lie outside the quote pairs, and every delimiter inside a quote pair
\* stays in its field; "Smith, John",34 gives the fields Smith, John and 34.
C7_QuotedDelimiterNotSplit ==
  /\ headers # <<>> =>
       Len(headers) = 1 + Cardinality(DelimitersBeforeEven(lines[1], bestDelimiter))
  /\ (headers # <<>> /\ Balanced(lines[1])) =>
    /\ Len(headers) = 1 + Cardinality(DelimitersOutside(lines[1], bestDelimiter))
    /\ Cardinality(DelimitersKept(headers, bestDelimiter))
         = Cardinality(DelimitersInside(lines[1], bestDelimiter))
    /\ lines[1] = QuotedRow => headers = <<SmithJohn, <<"3", "4">>>>

C7_Witness ==
  /\ headers = <<SmithJohn, <<"3", "4">>>>
  /\ lines[1] = QuotedRow
  /\ bestDelimiter = Comma

\* The rows among the first SampleRows data rows in which column i holds a
\* non-empty value
RowsWithValue(i) ==
  {r \in 1..Min(Len(dataLines), SampleRows) :
     LET fields == splitLine(dataLines[r], bestDelimiter)
     IN i <= Len(fields) /\ fields[i] # <<>>}

\* C8: in a delivered summary, for every column, missing plus the number of
\* non-empty values sampled for the column is min(rowCount, 2000), also when
\* rows have fewer or more fields than the header.
C8_MissingPlusSampled ==
  Fulfilled =>
    \A i \in 1..Len(result[1].columns) :
      result[1].columns[i].missing + Cardinality(RowsWithValue(i))
        = Min(result[1].rowCount, SampleRows)

\* More than 2000 data rows, one of them with a field too few
C8_Witness ==
  /\ Fulfilled
  /\ result[1].rowCount > SampleRows
  /\ malformedCount > 0
  /\ \E i \in 1..Len(result[1].columns) : result[1].columns[i].missing = 1

NumericCount(vals) ==
  Cardinality({k \in 1..Len(vals) : NumberOk(vals[k])})

DateCount(vals) ==
  Cardinality({k \in 1..Len(vals) :
                 Len(vals[k]) > 5 /\ ~NumberOk(vals[k]) /\ DateOk(vals[k])})

\* C9: a column is numeric exactly when more than 0.8 of its sampled values
\* parse as numbers; it is date exactly when it is not numeric and more than
\* 0.6 of them are values longer than 5 characters that are no numbers and
\* parse as dates; otherwise it is string.
C9_TypeByThresholds ==
  Fulfilled =>
    \A i \in 1..Len(result[1].columns) :
      LET vals      == columnValues[i]
          n         == Len(vals)
          type      == result[1].columns[i].type
          overNum   == n > 0 /\ 10 * NumericCount(vals) > 8 * n
          overDate  == n > 0 /\ 10 * DateCount(vals) > 6 * n
      IN /\ type = "numeric" <=> overNum
         /\ type = "date" <=> (~overNum /\ overDate)
         /\ type = "string" <=> (~overNum /\ ~overDate)

\* Exactly 0.8 of the values are numbers, one of them a number that is also
\* an ISO year, and the column is neither numeric nor date
C9_Witness ==
  /\ Fulfilled
  /\ Len(columnValues[1]) = 5
  /\ NumericCount(columnValues[1]) = 4
  /\ DateCount(columnValues[1]) = 1
  /\ PlusYear \in Range(columnValues[1])
  /\ result[1].columns[1].type = "string"

\* The element at zero-based index j of vals in ascending order
OrderStatistic(vals, j) ==
  CHOOSE v \in Range(vals) :
    /\ Cardinality({k \in 1..Len(vals) : vals[k] < v}) <= j
    /\ j < Cardinality({k \in 1..Len(vals) : vals[k] <= v})

\* C10: for a numeric column with n parsed values, q1, median and q3 are the
\* values at the zero-based indices floor(n*0.25), floor(n*0.5) and
\* floor(n*0.75) of the ascending order; the indices lie in 0..n-1; for the
\* values 1..10 they are 3, 6 and 8.
C10_QuantilesByIndex ==
  Fulfilled =>
    \A i \in 1..Len(result[1].columns) :
      result[1].columns[i].type = "numeric" =>
        LET parsed == NumericParsed(columnValues[i])
            n      == Len(parsed)
            q      == result[1].columns[i].stats.quantiles
        IN /\ n >= 1
           /\ (75 * n) \div 100 \in 0..(n - 1)
           /\ q.q1 = OrderStatistic(parsed, (25 * n) \div 100)
           /\ q.median = OrderStatistic(parsed, (50 * n) \div 100)
           /\ q.q3 = OrderStatistic(parsed, (75 * n) \div 100)
           /\ file.text = TenValues => q = [q1 |-> 3, median |-> 6, q3 |-> 8]

C10_Witness ==
  /\ Fulfilled
  /\ file.text = TenValues
  /\ result[1].columns[1].type = "numeric"
  /\ result[1].columns[1].stats.quantiles = [q1 |-> 3, median |-> 6, q3 |-> 8]

----------------------------------------------------------------------------

\* The fields of data row r
FieldsOf(r) == splitLine(dataLines[r], bestDelimiter)

\* The least element of a non-empty set of numbers
Least(S) == CHOOSE x \in S : \A y \in S : x <= y

HistogramTotal(histogram) ==
  SeqSum([b \in 1..Len(histogram) |-> histogram[b].value])

\* C14: rowCount is the number of non-blank lines after the header, also
\* beyond 2000; and every ColumnInfo is determined by the first 2000 data
\* rows: missing, unique, example, type and the top-value counts are those of
\* the fields of these rows.
C14_RowCountTotalColumnsFromSample ==
  Fulfilled =>
    /\ result[1].rowCount = NonBlankLineCount(file.text) - 1
    /\ \A i \in 1..Len(result[1].columns) :
         LET col    == result[1].columns[i]
             rows   == RowsWithValue(i)
             value(r) == FieldsOf(r)[i]
             n      == Cardinality(rows)
             nums   == Cardinality({r \in rows : NumberOk(value(r))})
             dates  == Cardinality({r \in rows : CountsAsDate(value(r))})
         IN /\ rows \subseteq 1..SampleRows
            /\ col.missing = Min(result[1].rowCount, SampleRows) - n
            /\ col.unique = Cardinality({value(r) : r \in rows})
            /\ col.example = IF rows = {} THEN Null ELSE value(Least(rows))
            /\ col.type = "numeric" <=> (n > 0 /\ 5 * nums > 4 * n)
            /\ col.type = "date" <=>
                 (~(n > 0 /\ 5 * nums > 4 * n) /\ n > 0 /\ 5 * dates > 3 * n)
            /\ col.type = "numeric" =>
                 HistogramTotal(col.stats.histogram) = nums
            /\ col.type = "string" =>
                 \A k \in 1..Len(col.stats.topValues) :
                   LET e == col.stats.topValues[k]
                   IN Len(e.name) <= NameLimit =>
                        e.value = Cardinality({r \in rows : value(r) = e.name})

\* 2001 data rows, the last with one field, which would be a second distinct
\* value of column 1
C14_Witness ==
  /\ Fulfilled
  /\ result[1].rowCount = SampleRows + 1
  /\ Len(FieldsOf(SampleRows + 1)) = 1
  /\ result[1].columns[1].unique = 1
  /\ result[1].columns[2].missing = 0

\* C15: the preview has min(rowCount, 50) rows; its row k is built from the
\* k-th non-blank line after the header, malformed or not: every header has
\* the field at its position, and undefined when the line has no such field.
C15_PreviewFirstRows ==
  Fulfilled =>
    /\ Len(result[1].preview) = Min(result[1].rowCount, PreviewRows)
    /\ \A k \in 1..Len(result[1].preview) :
         LET fields == FieldsOf(k)
             row    == result[1].preview[k]
         IN /\ DOMAIN row = Range(headers)
            /\ \A i \in 1..Len(headers) :
                 (\A j \in (i + 1)..Len(headers) : headers[j] # headers[i]) =>
                   row[headers[i]] =
                     IF i <= Len(fields) THEN fields[i] ELSE Undefined

\* More than 50 data rows, the first of them with a field too few
C15_Witness ==
  /\ Fulfilled
  /\ result[1].rowCount > PreviewRows
  /\ Len(result[1].preview) = PreviewRows
  /\ Len(FieldsOf(1)) < Len(headers)
  /\ result[1].preview[1][headers[2]] = Undefined

\* The malformed rows among the first n data rows
MalformedAmongFirst(n) ==
  Cardinality({r \in 1..Min(Len(dataLines), n) :
                 Len(FieldsOf(r)) # Len(headers)})

\* C19 (as claimed): the validator counts the malformed rows among the first
\* min(dataRowCount, 100) data rows, the 100th included.
C19_ExaminesFirstHundredDataRows ==
  Validated => malformedCount = MalformedAmongFirst(ValidationRows)

\* C20 (as claimed): the histogram of a numeric column counts all of the
\* column's sampled non-empty values: its counts sum to sampleLimit - missing.
C20_StatsOverAllSampledValues ==
  Fulfilled =>
    \A i \in 1..Len(result[1].columns) :
      result[1].columns[i].type = "numeric" =>
        HistogramTotal(result[1].columns[i].stats.histogram)
          = sampleLimit - result[1].columns[i].missing

\* The numbers among the sampled values of a column, as a set of positions
NumericPositions(vals) == {k \in 1..Len(vals) : NumberOk(vals[k])}

\* C20 (amended): for a numeric column min, max, mean, the quantiles and the
\* histogram are computed over the sampled values that parse as numbers; a
\* value that fails the parse is left out, so the histogram counts sum to at
\* most the number of parsed values, which is less than sampleLimit - missing
\* when a value fails the parse.
C20_StatsOverParsedValues ==
  Fulfilled =>
    \A i \in 1..Len(result[1].columns) :
      result[1].columns[i].type = "numeric" =>
        LET vals   == columnValues[i]
            at     == NumericPositions(vals)
            stats  == result[1].columns[i].stats
            numbers == {NumberOf(vals[k]) : k \in at}
            total  == HistogramTotal(stats.histogram)
        IN /\ stats.min \in numbers /\ \A x \in numbers : stats.min <= x
           /\ stats.max \in numbers /\ \A x \in numbers : x <= stats.max
           /\ stats.mean.num * Cardinality(at)
                = stats.mean.den * SeqSum(NumericParsed(vals))
           /\ {stats.quantiles.q1, stats.quantiles.median, stats.quantiles.q3}
                \subseteq numbers
           /\ total <= Cardinality(at)
           /\ Cardinality(at) < Len(vals) =>
                total < sampleLimit - result[1].columns[i].missing

\* Five numbers and one word: the column is numeric and the word is left out
C20_Witness ==
  /\ Fulfilled
  /\ result[1].columns[1].type = "numeric"
  /\ Len(columnValues[1]) = 6
  /\ LongWord \in Range(columnValues[1])
  /\ HistogramTotal(result[1].columns[1].stats.histogram) = 5
  /\ result[1].columns[1].missing = 0

----------------------------------------------------------------------------

Occurrences(vals, v) == Cardinality({k \in 1..Len(vals) : vals[k] = v})

\* The display form of a raw value: itself up to 15 characters, else its
\* first 15 characters and '...'
Shown(v) ==
  IF Len(v) <= 15 THEN v ELSE SubSeq(v, 1, 15) \o <<".", ".", ".">>

\* The distinct raw values that have an entry in top
Included(vals, top) ==
  {v \in Range(vals) :
     \E k \in 1..Len(top) :
       top[k].name = Shown(v) /\ top[k].value = Occurrences(vals, v)}

\* C13 (as claimed): topValues of a string column has at most 20 entries in
\* non-increasing order of count, one entry per included distinct raw value
\* with the count of the untruncated value and its display name, and no value
\* left out occurs more often than an included one.
C13_TopValuesByCount ==
  Fulfilled =>
    \A i \in 1..Len(result[1].columns) :
      result[1].columns[i].type = "string" =>
        LET vals == columnValues[i]
            top  == result[1].columns[i].stats.topValues
            in   == Included(vals, top)
        IN /\ Len(top) <= 20
           /\ \A k \in 1..(Len(top) - 1) : top[k].value >= top[k + 1].value
           /\ \A k \in 1..Len(top) :
                \E v \in in :
                  top[k].name = Shown(v) /\ top[k].value = Occurrences(vals, v)
           /\ Cardinality(in) = Len(top)
           /\ \A u \in Range(vals) \ in : \A v \in in :
                Occurrences(vals, u) <= Occurrences(vals, v)

----------------------------------------------------------------------------

Exported == download # <<>>

\* Where the name of column i starts in the header line
NameOffset(names, i) ==
  SeqSum([j \in 1..(i - 1) |-> Len(names[j]) + 1])

\* A doubled quote read back as one quote
RECURSIVE Undouble(_)
Undouble(v) ==
  IF v = <<>> THEN <<>>
  ELSE IF Len(v) >= 2 /\ v[1] = Quote /\ v[2] = Quote
    THEN <<Quote>> \o Undouble(SubSeq(v, 3, Len(v)))
    ELSE <<Head(v)>> \o Undouble(Tail(v))

\* C16: the export has the header line and one line per preview row, in
\* order; the header line is the column names separated by ','; a data line
\* read at the commas that have an even number of quotes to their right has
\* one field per column, and the field of column i is wrapped in quotes, has
\* twice the value's quotes inside and reads back as the value, the empty
\* string standing for undefined.
C16_ExportHeaderAndQuotedRows ==
  (Fulfilled /\ Exported) =>
    LET out   == download[1]
        cols  == result[1].columns
        names == [i \in 1..Len(cols) |-> cols[i].name]
    IN /\ Len(out) = 1 + Len(result[1].preview)
       /\ Len(out[1]) = NameOffset(names, Len(names) + 1) - 1
       /\ \A i \in 1..Len(names) :
            /\ SubSeq(out[1], NameOffset(names, i) + 1,
                      NameOffset(names, i) + Len(names[i])) = names[i]
            /\ i > 1 => out[1][NameOffset(names, i)] = Comma
       /\ \A k \in 1..Len(result[1].preview) :
            LET fields == RegexSplit(out[k + 1], Comma)
                row    == result[1].preview[k]
            IN /\ Len(fields) = Len(cols)
               /\ \A i \in 1..Len(cols) :
                    LET val   == row[names[i]]
                        text  == IF val = Undefined THEN <<>> ELSE val
                        field == fields[i]
                        inner == SubSeq(field, 2, Len(field) - 1)
                    IN /\ Len(field) >= 2
                       /\ field[1] = Quote /\ field[Len(field)] = Quote
                       /\ CountChar(inner, Quote) = 2 * CountChar(text, Quote)
                       /\ Len(inner) = Len(text) + CountChar(text, Quote)
                       /\ Undouble(inner) = text

\* A value with a quote inside and a row that lacks its second field
C16_Witness ==
  /\ Fulfilled
  /\ Exported
  /\ lines = <<HeaderAC, RowInner, RowInner, RowGap, RowShort>>
  /\ download[1][1] = HeaderAC
  /\ download[1][2] =
       <<Quote, "x", Quote, Quote, "y", Quote, Comma, Quote, "1", Quote>>
  /\ download[1][5] = <<Quote, "2", Quote, Comma, Quote, Quote>>

----------------------------------------------------------------------------

Returned == apc = "returned"
Threw    == apc = "threw"
Finished == Returned \/ Threw

\* The requests to one agent among the first n requests
CallsTo(agent, n) == Cardinality({p \in 1..n : calls[p] = agent})

\* Request p is the Builder's or the Critic's request of pass k exactly when
\* k - 1 passes have been both built and reviewed before it
PassesInOrder ==
  \A p \in 1..Len(calls) :
    /\ calls[p] = "Builder" =>
         CallsTo("Builder", p - 1) = CallsTo("Critic", p - 1)
    /\ calls[p] = "Critic" =>
         CallsTo("Builder", p - 1) = CallsTo("Critic", p - 1) + 1
    /\ calls[p] = "Planner" => p = 1

AtMostThreePasses ==
  /\ CallsTo("Builder", Len(calls)) <= 3
  /\ CallsTo("Critic", Len(calls)) <= 3
  /\ Len(iterationHistory) <= 3
  /\ PassesInOrder

\* A finished run has a result or an error, and a result only after a review
\* of its last build
ResultOrError ==
  /\ Finished <=> outcome # <<>>
  /\ Returned => /\ outcome[1].kind = "result"
                  /\ CallsTo("Critic", Len(calls)) = CallsTo("Builder", Len(calls))
                  /\ CallsTo("Builder", Len(calls)) >= 1
  /\ Threw => outcome[1].kind = "error"

\* C17 (as claimed): a finished run has called the Planner exactly once and
\* the Builder and the Critic at most 3 times each, pass by pass.
C17_PlannerOnceThreePasses ==
  Finished => CallsTo("Planner", Len(calls)) = 1 /\ AtMostThreePasses

\* C17 (amended): a run calls the Planner at most once, and exactly once
\* when the environment has an API key (without one it ends with an error
\* before any request); it calls the Builder and the Critic at most 3 times
\* each, the Critic's request of a pass after the Builder's; and when every
\* request and pause comes back, the run ends with a result or an error.
C17_BoundedPassesAndTermination ==
  /\ [](/\ AtMostThreePasses
        /\ ResultOrError
        /\ CallsTo("Planner", Len(calls)) <= 1
        /\ (apiKey /\ apc # "start") => CallsTo("Planner", Len(calls)) = 1
        /\ ~apiKey => calls = <<>>)
  /\ <>Finished

\* Three passes, none accepted
C17_Witness ==
  /\ Returned
  /\ calls = <<"Planner", "Builder", "Critic", "Builder", "Critic", "Builder",
               "Critic">>
  /\ Len(iterationHistory) = 3
  /\ ~Accepted(currentReview)

\* C18 (as claimed): when the run returns its result, every review with a
\* score below 85 has been followed by another request to the Builder.
C18_RevisionBelow85 ==
  Returned =>
    \A k \in 1..Len(iterationHistory) :
      iterationHistory[k].score < 85 => CallsTo("Builder", Len(calls)) > k

----------------------------------------------------------------------------
(* Histograms of decimal columns *)

NumericDescribed == cpc = "done" /\ described[1].type = "numeric"

\* C11: the histogram of a numeric column has exactly 10 bins when
\* min < max and exactly 1 bin when min = max, the single bin counting all
\* the parsed values; no other length occurs.
C11_TenBinsUnlessOneValue ==
  NumericDescribed =>
    LET stats == described[1].stats
        bins  == stats.histogram
    IN /\ NumLt(stats.min, stats.max) => Len(bins) = BinCount
       /\ stats.min = stats.max =>
            Len(bins) = 1 /\ bins[1].value = Len(parsedNumbers)
       /\ Len(bins) \in {1, BinCount}

\* The parsed values equal to x
EqualTo(x) == {k \in 1..Len(parsedNumbers) : parsedNumbers[k] = x}

\* C12: in a histogram of 10 bins every parsed value is counted in exactly
\* one bin, so the counts sum to the number of parsed values, and the
\* values equal to max are counted in the last bin.
C12_EveryValueInOneBin ==
  NumericDescribed /\ Len(described[1].stats.histogram) = BinCount =>
    LET stats == described[1].stats
        bins  == stats.histogram
    IN /\ HistogramTotal(bins) = Len(parsedNumbers)
       /\ bins[BinCount].value >= Cardinality(EqualTo(stats.max))

----------------------------------------------------------------------------
(* Columns without values *)

\* The column at position i of a delivered summary had no value sampled
EmptySample(i) == Fulfilled /\ i \in 1..Len(columnValues) /\ columnValues[i] = <<>>

\* What an empty sample gives apart from the stats
EmptySampleColumn(i) ==
  /\ result[1].columns[i].type = "string"
  /\ result[1].columns[i].example = Null
  /\ result[1].columns[i].unique = 0
  /\ result[1].columns[i].missing = sampleLimit

\* C21 as stated: a column with an empty sample is string, its stats carry
\* no field at all (no min, max, mean, quantiles, histogram, topValues), its
\* example is null, its unique 0 and its missing the size of the sample
\* window.
C21_EmptySampleNoStatsField ==
  \A i \in 1..Len(columnValues) :
    EmptySample(i) =>
      /\ EmptySampleColumn(i)
      /\ DOMAIN result[1].columns[i].stats = {}

\* C21: a column with an empty sample is string, its stats hold the field
\* topValues alone, which is the empty list, its example is null, its unique
\* 0 and its missing the size of the sample window.
C21_EmptySampleEmptyTopValues ==
  \A i \in 1..Len(columnValues) :
    EmptySample(i) =>
      /\ EmptySampleColumn(i)
      /\ DOMAIN result[1].columns[i].stats = {"topValues"}
      /\ result[1].columns[i].stats.topValues = <<>>

\* A summary of sampled rows with a column that has no value in any of them
C21_Witness ==
  /\ sampleLimit > 0
  /\ \E i \in 1..Len(columnValues) :
       EmptySample(i) /\ result[1].columns[i].missing = sampleLimit

----------------------------------------------------------------------------
(* Reserved column types *)

ReservedTypes == {"boolean", "unknown"}

\* C22: in every delivered summary each column's type is numeric, date or
\* string, never boolean or unknown, and no column has stats without a
\* field (the stats of a reserved type).
C22_NoReservedType ==
  Fulfilled =>
    \A i \in 1..Len(result[1].columns) :
      /\ result[1].columns[i].type \in {"numeric", "date", "string"}
      /\ result[1].columns[i].type \notin ReservedTypes
      /\ DOMAIN result[1].columns[i].stats # {}

\* A summary with a string column whose values are neither numbers nor
\* dates, next to a column of another type
C22_Witness ==
  /\ Fulfilled
  /\ \E i, j \in 1..Len(result[1].columns) :
       /\ result[1].columns[i].type = "string"
       /\ columnValues[i] # <<>>
       /\ result[1].columns[j].type # "string"

----------------------------------------------------------------------------
(* The result of the analysis *)

\* C23 (as claimed): the iterations field of a result is the number of
\* build-then-critique cycles that ran: the length of iterationHistory and
\* the iteration number of its last entry, after an approval and after the
\* third cycle alike.
C23_IterationsCountCycles ==
  Returned =>
    /\ outcome[1].iterations = Len(outcome[1].iterationHistory)
    /\ outcome[1].iterations =
         outcome[1].iterationHistory[Len(outcome[1].iterationHistory)].iteration

\* The review is approved or its score is greater than 90
BreaksAbove90(review) == ApprovedOf(review) \/ ScoreOf(review) > ApprovalScore

\* C24 (as claimed): after a review that is approved or has a score greater
\* than 90 the run returns with the notebook and the review of that cycle
\* and requests nothing more; after a review that is neither, with fewer than
\* 3 cycles run, another request to the Builder follows.
C24_BreakAbove90 ==
  iterationHistory # <<>> =>
    LET cycles == Len(iterationHistory)
    IN /\ BreaksAbove90(currentReview) =>
            /\ Returned
            /\ CallsTo("Builder", Len(calls)) = cycles
            /\ CallsTo("Critic", Len(calls)) = cycles
            /\ outcome[1].notebookCells = cycles
            /\ outcome[1].criticReview = currentReview
       /\ (~BreaksAbove90(currentReview) /\ cycles < MAX_ITERATIONS) =>
            CallsTo("Builder", Len(calls)) = cycles + 1

----------------------------------------------------------------------------
(* Preview rows by column position *)

\* The fields of data row r
DataFields(r) == splitLine(lines[r + 1], bestDelimiter)

\* C25 (as claimed): in a delivered summary, for every preview row r and
\* every column position i, the preview's value under the name of column i
\* is field i of data row r (undefined when the row has fewer fields), also
\* when two positions carry the same name; the export, once made, has that
\* field at position i of line r + 1.
C25_PreviewByPosition ==
  Fulfilled =>
    \A r \in 1..Len(result[1].preview) :
      \A i \in 1..Len(result[1].columns) :
        /\ result[1].preview[r][result[1].columns[i].name]
             = FieldAt(DataFields(r), i)
        /\ Exported =>
             RegexSplit(download[1][r + 1], Comma)[i]
               = CsvField(FieldAt(DataFields(r), i))

----------------------------------------------------------------------------
(* Column detection *)

\* The header line has been tokenized
HeadersRead ==
  pc \in {"validate", "preview", "sample", "columns", "resolve"} \/ Fulfilled

\* C26: once the lines are read, the header line tokenizes to at least one
\* field under every delimiter; the headers read have at least one entry,
\* a delivered summary has at least one column, and the column-detection
\* error is neither thrown nor the reason of a rejection.
C26_AtLeastOneColumn ==
  /\ lines # <<>> =>
       \A d \in Candidates : Len(splitLine(lines[1], d)) >= 1
  /\ HeadersRead => Len(headers) >= 1
  /\ Fulfilled => Len(result[1].columns) >= 1
  /\ thrown # <<ColumnError>>
  /\ reason # <<ColumnError>>

\* A header line of separators only has been tokenized: every field is empty
C26_Witness ==
  /\ HeadersRead
  /\ Len(headers) >= 2
  /\ \A i \in 1..Len(headers) : headers[i] = <<>>

----------------------------------------------------------------------------
(* App: uploads, the agent pipeline on screen, and the history *)

\* [newItem, ...history].slice(0, 20)
HistoryLimit == 20

\* The sizes of the CSV files of an upload, in the order of the file list
FileSizes == {1, 2}
Uploads == SeqsUpTo(FileSizes, MaxCsv)

NoCsvMessage     == "No CSV file found. Please upload at least one structured dataset file."
NoPrimaryMessage == "Failed to process primary dataset."
NoKeyMessage     == "API Key not found in environment"
PlannerMessage   == "Planner Agent failed to generate a response."
BuilderMessage   == "Builder Agent failed."
CriticMessage    == "Critic Agent failed."
FallbackMessage  == "An unexpected error occurred."

\* The messages of what parseCSV rejects with: an Error thrown by the load
\* handler, or reader.error, whose message the browser chooses
ParseMessages ==
  {"File is empty or contains insufficient data (less than 2 rows).",
   "Encoding Error: The file contains invalid characters. Please ensure the CSV is UTF-8 encoded.",
   ""}

\* An item kept by an earlier session, k saves back
StoredItem(k) ==
  [timestamp |-> 0 - k,
   summary   |-> [run |-> 0 - k, file |-> 1],
   analysis  |-> [run |-> 0 - k]]

StoredItems(n) == [k \in 1..n |-> StoredItem(k)]

\* How many items local storage holds when the component mounts
StoredLengths == {0, HistoryLimit - 1, HistoryLimit}

\* The component after the effect that loads the stored history
InitApp ==
  /\ file = NoFile
  /\ ParseStart
  /\ download = <<>>
  /\ ColumnIdle
  /\ apiKey \in BOOLEAN
  /\ apc = "idle"
  /\ plan = <<>>
  /\ iteration = 0
  /\ currentNotebookCells = 0
  /\ currentReview = NoReview
  /\ iterationHistory = <<>>
  /\ calls = <<>>
  /\ progress = <<>>
  /\ outcome = <<>>
  /\ appState = "IDLE"
  /\ datasetSummary = NoValue
  /\ analysisResult = NoValue
  /\ errorMsg = NoValue
  /\ agentStage = "PLANNING"
  /\ agentLogs = <<>>
  /\ isHistoryOpen = FALSE
  /\ now = 0
  /\ runs = [r \in RunIds |-> NotStarted]
  /\ \E n \in StoredLengths :
       /\ history = StoredItems(n)
       /\ storage = IF n = 0 THEN NoValue ELSE <<StoredItems(n)>>

\* agentName.includes('Builder'), agentName.includes('Revision')
NamesWithBuilder  == {"Builder", "Builder (Revision)"}
NamesWithRevision == {"Builder (Revision)"}

\* The stage the onProgress callback of handleFilesSelect chooses
StageFor(agentName) ==
  IF agentName = "Critic" THEN "VALIDATION"
  ELSE IF agentName \in NamesWithBuilder
    THEN IF agentName \in NamesWithRevision THEN "REVISION" ELSE "ACTION"
    ELSE "PLANNING"

\* addLog(stage, message, agentName)
LogEntry(stage, agentName) == [stage |-> stage, agentName |-> agentName]

\* onProgress called once for every name, in order: the stage set last and
\* the log entries added
RECURSIVE StageAfter(_, _)
StageAfter(names, stage) ==
  IF names = <<>> THEN stage
  ELSE StageAfter(Tail(names), StageFor(Head(names)))

LogsAfter(names) ==
  [i \in 1..Len(names) |-> LogEntry(StageFor(names[i]), names[i])]

OnProgress(names) ==
  /\ agentStage' = StageAfter(names, agentStage)
  /\ agentLogs' = agentLogs \o LogsAfter(names)

\* Variant: the message as thrown
MessageAsThrown(message) == message

\* err.message || "An unexpected error occurred."
ErrorText(message) == IF message = "" THEN FallbackMessage ELSE message

\* catch (err): the call of handleFilesSelect ends here
Caught(r, message) ==
  /\ errorMsg' = <<ErrorText(message)>>
  /\ appState' = "ERROR"
  /\ runs' = [runs EXCEPT ![r].pc = "failed"]

\* The FileUpload of the IDLE screen hands over its files: with no CSV the
\* call throws at once, else it awaits parseCSV of the first
handleFilesSelect(r, files) ==
  /\ appState = "IDLE"
  /\ runs[r].pc = "none"
  /\ \A q \in 1..(r - 1) : runs[q].pc # "none"
  /\ agentLogs' = <<>>
  /\ IF Len(files) = 0
       THEN Caught(r, NoCsvMessage)
       ELSE /\ appState' = "ANALYZING_LOCAL"
            /\ errorMsg' = NoValue
            /\ runs' = [runs EXCEPT ![r] =
                          [NotStarted EXCEPT !.pc = "parsing",
                                             !.files = files,
                                             !.history = history]]
  /\ UNCHANGED <<datasetSummary, analysisResult, agentStage, history,
                 isHistoryOpen, storage, now>>
  /\ UNCHANGED <<parseVars, download, agentVars, columnVars>>

\* The summary of file k of call r
SummaryOf(r, k) == [run |-> r, file |-> k]

\* if (csv.size > largestSize): the locals after file k came back
WithSummary(run, r, k) ==
  IF run.files[k] > run.largestSize
    THEN [run EXCEPT !.parsed = k, !.largestSize = run.files[k],
                     !.primarySummary = <<SummaryOf(r, k)>>]
    ELSE [run EXCEPT !.parsed = k]

\* After the last CSV: the summary goes on screen and
\* runMultiAgentAnalysis starts, up to its first await
StartPipeline(r, run) ==
  IF run.primarySummary = NoValue
    THEN /\ Caught(r, NoPrimaryMessage)
         /\ UNCHANGED <<datasetSummary, agentStage, agentLogs>>
    ELSE /\ datasetSummary' = run.primarySummary
         /\ IF apiKey
              THEN /\ appState' = "ANALYZING_AI"
                   /\ errorMsg' = errorMsg
                   /\ agentStage' = StageAfter(<<"Planner">>, "PLANNING")
                   /\ agentLogs' =
                        Append(agentLogs, LogEntry("PLANNING", "System"))
                          \o LogsAfter(<<"Planner">>)
                   /\ runs' = [runs EXCEPT ![r] =
                                 [run EXCEPT !.pc = "planner"]]
              ELSE /\ Caught(r, NoKeyMessage)
                   /\ agentStage' = "PLANNING"
                   /\ agentLogs' =
                        Append(agentLogs, LogEntry("PLANNING", "System"))

\* await parseCSV(csv) comes back for the next file of call r
ParseSettles(r, fulfilled, message) ==
  /\ runs[r].pc = "parsing"
  /\ LET k == runs[r].parsed + 1
     IN IF ~fulfilled
          THEN /\ Caught(r, message)
               /\ UNCHANGED <<datasetSummary, agentStage, agentLogs>>
          ELSE IF k < Len(runs[r].files)
            THEN /\ runs' = [runs EXCEPT ![r] = WithSummary(runs[r], r, k)]
                 /\ UNCHANGED <<appState, errorMsg, datasetSummary,
                                agentStage, agentLogs>>
            ELSE StartPipeline(r, WithSummary(runs[r], r, k))
  /\ UNCHANGED <<analysisResult, history, isHistoryOpen, storage, now>>
  /\ UNCHANGED <<parseVars, download, agentVars, columnVars>>

\* The Planner's answer comes back to call r
RunPlannerResponds(r, empty) ==
  /\ runs[r].pc = "planner"
  /\ IF empty
       THEN Caught(r, PlannerMessage) /\ UNCHANGED <<agentStage, agentLogs>>
       ELSE /\ OnProgress(<<"Planner">>)
            /\ runs' = [runs EXCEPT ![r].pc = "planned"]
            /\ UNCHANGED <<appState, errorMsg>>
  /\ UNCHANGED <<datasetSummary, analysisResult, history, isHistoryOpen,
                 storage, now>>
  /\ UNCHANGED <<parseVars, download, agentVars, columnVars>>

\* The pause after the plan ends: the first cycle sends to the Builder
RunEntersLoop(r) ==
  /\ runs[r].pc = "planned"
  /\ OnProgress(<<AgentName(runs[r].iteration)>>)
  /\ runs' = [runs EXCEPT ![r].pc = "builder"]
  /\ UNCHANGED <<appState, errorMsg, datasetSummary, analysisResult, history,
                 isHistoryOpen, storage, now>>
  /\ UNCHANGED <<parseVars, download, agentVars, columnVars>>

\* The Builder's answer comes back to call r
RunBuilderResponds(r, empty) ==
  /\ runs[r].pc = "builder"
  /\ IF empty
       THEN Caught(r, BuilderMessage) /\ UNCHANGED <<agentStage, agentLogs>>
       ELSE /\ OnProgress(<<AgentName(runs[r].iteration)>>)
            /\ runs' = [runs EXCEPT ![r].pc = "built"]
            /\ UNCHANGED <<appState, errorMsg>>
  /\ UNCHANGED <<datasetSummary, analysisResult, history, isHistoryOpen,
                 storage, now>>
  /\ UNCHANGED <<parseVars, download, agentVars, columnVars>>

\* The pause after the build ends: the code goes to the Critic
RunCallsCritic(r) ==
  /\ runs[r].pc = "built"
  /\ OnProgress(<<"Critic">>)
  /\ runs' = [runs EXCEPT ![r].pc = "critic"]
  /\ UNCHANGED <<appState, errorMsg, datasetSummary, analysisResult, history,
                 isHistoryOpen, storage, now>>
  /\ UNCHANGED <<parseVars, download, agentVars, columnVars>>

\* What onProgress is called with from the review to the next await
NamesAfterReview(accepted, i) ==
  IF accepted THEN <<"Critic", "System">>
  ELSE IF i < MAX_ITERATIONS - 1
    THEN <<"Critic", "System", AgentName(i + 1)>>
    ELSE <<"Critic">>

\* The Critic's answer comes back to call r: the loop goes on with a
\* revision, or the call returns and the COMPLETE stage is shown
RunCriticResponds(r, empty, accepted) ==
  /\ runs[r].pc = "critic"
  /\ LET i     == runs[r].iteration
         names == NamesAfterReview(accepted, i)
     IN IF empty
          THEN Caught(r, CriticMessage)
                 /\ UNCHANGED <<agentStage, agentLogs>>
          ELSE IF ~accepted /\ i < MAX_ITERATIONS - 1
            THEN /\ OnProgress(names)
                 /\ runs' = [runs EXCEPT ![r].pc = "builder",
                                         ![r].iteration = i + 1]
                 /\ UNCHANGED <<appState, errorMsg>>
            ELSE /\ agentStage' = "COMPLETE"
                 /\ agentLogs' =
                      Append(agentLogs \o LogsAfter(names),
                             LogEntry("COMPLETE", "System"))
                 /\ runs' = [runs EXCEPT ![r].pc = "finishing"]
                 /\ UNCHANGED <<appState, errorMsg>>
  /\ UNCHANGED <<datasetSummary, analysisResult, history, isHistoryOpen,
                 storage, now>>
  /\ UNCHANGED <<parseVars, download, agentVars, columnVars>>

\* The first n entries
Slice(s, n) == SubSeq(s, 1, Min(Len(s), n))

\* newItem of saveToHistory, at the reading t of Date.now()
NewItem(summary, analysis, t) ==
  [timestamp |-> t, summary |-> summary, analysis |-> analysis]

\* updatedHistory of saveToHistory: the new item before the history the
\* closure holds
UpdatedHistory(item, captured) ==
  Slice(<<item>> \o captured, HistoryLimit)

\* The last pause of call r ends: the result goes on screen and into the
\* history
RunCompletes(r) ==
  /\ runs[r].pc = "finishing"
  /\ now' = now + 1
  /\ analysisResult' = <<[run |-> r]>>
  /\ LET item == NewItem(runs[r].primarySummary[1], [run |-> r], now + 1)
     IN /\ history' = UpdatedHistory(item, runs[r].history)
        /\ storage' = <<UpdatedHistory(item, runs[r].history)>>
  /\ appState' = "COMPLETE"
  /\ runs' = [runs EXCEPT ![r].pc = "done"]
  /\ UNCHANGED <<datasetSummary, errorMsg, agentStage, agentLogs,
                 isHistoryOpen>>
  /\ UNCHANGED <<parseVars, download, agentVars, columnVars>>

\* The logo of the navigation bar, the error screen and the Dashboard
reset ==
  /\ appState' = "IDLE"
  /\ datasetSummary' = NoValue
  /\ analysisResult' = NoValue
  /\ errorMsg' = NoValue
  /\ agentLogs' = <<>>
  /\ UNCHANGED <<agentStage, history, isHistoryOpen, storage, now, runs>>
  /\ UNCHANGED <<parseVars, download, agentVars, columnVars>>

\* The History button of the navigation bar
OpenHistory ==
  /\ ~isHistoryOpen
  /\ isHistoryOpen' = TRUE
  /\ UNCHANGED <<appState, datasetSummary, analysisResult, errorMsg,
                 agentStage, agentLogs, history, storage, now, runs>>
  /\ UNCHANGED <<parseVars, download, agentVars, columnVars>>

\* onClose of the HistoryModal
CloseHistory ==
  /\ isHistoryOpen
  /\ isHistoryOpen' = FALSE
  /\ UNCHANGED <<appState, datasetSummary, analysisResult, errorMsg,
                 agentStage, agentLogs, history, storage, now, runs>>
  /\ UNCHANGED <<parseVars, download, agentVars, columnVars>>

handleClearHistory ==
  /\ isHistoryOpen
  /\ history' = <<>>
  /\ storage' = NoValue
  /\ UNCHANGED <<appState, datasetSummary, analysisResult, errorMsg,
                 agentStage, agentLogs, isHistoryOpen, now, runs>>
  /\ UNCHANGED <<parseVars, download, agentVars, columnVars>>

handleHistorySelect(item) ==
  /\ isHistoryOpen
  /\ datasetSummary' = <<item.summary>>
  /\ analysisResult' = <<item.analysis>>
  /\ appState' = "COMPLETE"
  /\ isHistoryOpen' = FALSE
  /\ UNCHANGED <<errorMsg, agentStage, agentLogs, history, storage, now,
                 runs>>
  /\ UNCHANGED <<parseVars, download, agentVars, columnVars>>

\* The items of the list the user picks from: the newest and the oldest
Selectable ==
  IF history = <<>> THEN {} ELSE {history[1], history[Len(history)]}

NextApp ==
  \/ \E r \in RunIds, files \in Uploads : handleFilesSelect(r, files)
  \/ \E r \in RunIds, fulfilled \in BOOLEAN, message \in ParseMessages :
       ParseSettles(r, fulfilled, message)
  \/ \E r \in RunIds, empty \in BOOLEAN : RunPlannerResponds(r, empty)
  \/ \E r \in RunIds : RunEntersLoop(r)
  \/ \E r \in RunIds, empty \in BOOLEAN : RunBuilderResponds(r, empty)
  \/ \E r \in RunIds : RunCallsCritic(r)
  \/ \E r \in RunIds, empty, accepted \in BOOLEAN :
       RunCriticResponds(r, empty, accepted)
  \/ \E r \in RunIds : RunCompletes(r)
  \/ reset
  \/ OpenHistory
  \/ CloseHistory
  \/ handleClearHistory
  \/ \E item \in Selectable : handleHistorySelect(item)

AppSpec == InitApp /\ [][NextApp]_vars

AppStates == {"IDLE", "ANALYZING_LOCAL", "ANALYZING_AI", "COMPLETE", "ERROR"}
AgentStages == {"PLANNING", "ACTION", "VALIDATION", "REVISION", "COMPLETE"}

AppTypeOK ==
  /\ appState \in AppStates
  /\ agentStage \in AgentStages
  /\ isHistoryOpen \in BOOLEAN
  /\ \A r \in RunIds :
       runs[r].pc \in {"none", "parsing", "planner", "planned", "builder",
                       "built", "critic", "finishing", "done", "failed"}

----------------------------------------------------------------------------
(* The result on screen *)

\* C27 (as claimed): whenever the application state is COMPLETE, the
\* summary and the analysis on screen are both there and come from the same
\* source, the same call of handleFilesSelect or the same history item,
\* whatever the user did while the call was pending.
C27_CompleteShowsOneSource ==
  appState = "COMPLETE" =>
    /\ datasetSummary # NoValue
    /\ analysisResult # NoValue
    /\ datasetSummary[1].run = analysisResult[1].run

----------------------------------------------------------------------------
(* The history *)

\* The history local storage holds
Stored == IF storage = NoValue THEN <<>> ELSE storage[1]

NewestFirst(items) ==
  \A i \in 1..(Len(items) - 1) : items[i].timestamp > items[i + 1].timestamp

\* C28 (as claimed): the history always holds at most 20 items, newest
\* first, and is what local storage holds; and every step leaves in it only
\* items that were in it before the step or the item saved by the step, so
\* that an item removed by Clear History never comes back, also when a call
\* that began before the clear completes after it.
C28_HistoryBoundedAndCleared ==
  /\ [](/\ Len(history) <= HistoryLimit
        /\ NewestFirst(history)
        /\ history = Stored)
  /\ [][\A item \in Range(history') :
          item \in Range(history) \/ item.timestamp = now']_vars

----------------------------------------------------------------------------
(* The stages on screen *)

\* The stage that belongs to each agent
StageOfAgent ==
  [a \in {"Planner", "Builder", "Builder (Revision)", "Critic"} |->
     CASE a = "Planner" -> "PLANNING"
       [] a = "Builder" -> "ACTION"
       [] a = "Builder (Revision)" -> "REVISION"
       [] a = "Critic" -> "VALIDATION"]

\* PLANNING, ACTION, VALIDATION, any number of REVISION and VALIDATION, then
\* COMPLETE: the stage that may follow each stage, itself included
StageOrder ==
  {<<"PLANNING", "PLANNING">>, <<"PLANNING", "ACTION">>,
   <<"ACTION", "ACTION">>, <<"ACTION", "VALIDATION">>,
   <<"VALIDATION", "VALIDATION">>, <<"VALIDATION", "REVISION">>,
   <<"VALIDATION", "COMPLETE">>, <<"REVISION", "REVISION">>,
   <<"REVISION", "VALIDATION">>}

\* C29 (as claimed): every stage set during a call is logged with its
\* message; the logged stages follow PLANNING, ACTION, VALIDATION, then
\* REVISION and VALIDATION any number of times, then COMPLETE; a message of
\* an agent is logged under that agent's stage; and no entry after one of
\* the Builder is under PLANNING.
C29_StagesInOrder ==
  /\ \A i \in 1..(Len(agentLogs) - 1) :
       <<agentLogs[i].stage, agentLogs[i + 1].stage>> \in StageOrder
  /\ \A i \in 1..Len(agentLogs) :
       agentLogs[i].agentName \in DOMAIN StageOfAgent =>
         agentLogs[i].stage = StageOfAgent[agentLogs[i].agentName]
  /\ \A i, j \in 1..Len(agentLogs) :
       (i < j /\ agentLogs[i].agentName \in NamesWithBuilder) =>
         agentLogs[j].stage # "PLANNING"

----------------------------------------------------------------------------
(* Failed uploads *)

\* Call r has ended in the catch clause
Failed(r) == runs[r].pc = "failed"

\* C30: the step in which a call of handleFilesSelect fails, for want of a
\* CSV, by a rejected parseCSV or by an empty answer of the Planner, the
\* Builder or the Critic, sets the state ERROR and a message that is not
\* empty and leaves the analysis on screen, the history and local storage as
\* they were; a failed call takes no further step, the analysis on screen
\* is not its own and no history item is.
C30_FailedRunShowsError ==
  /\ [][\A r \in RunIds :
          (Failed(r)' /\ ~Failed(r)) =>
            /\ appState' = "ERROR"
            /\ errorMsg' # NoValue
            /\ errorMsg'[1] # ""
            /\ analysisResult' = analysisResult
            /\ history' = history
            /\ storage' = storage]_vars
  /\ [][\A r \in RunIds : Failed(r) => runs'[r] = runs[r]]_vars
  /\ [](\A r \in RunIds :
          Failed(r) =>
            /\ analysisResult # <<[run |-> r]>>
            /\ \A item \in Range(history) : item.analysis.run # r)

\* The second CSV of an upload was rejected with an error that has no
\* message, after the first was parsed
C30_Witness ==
  /\ Failed(1)
  /\ runs[1].parsed = 1
  /\ appState = "ERROR"
  /\ errorMsg = <<FallbackMessage>>

====
